---- MODULE Spec2Model ----
(***************************************************************************)
(* go-browser-inventory: the extension cache (db), the command-line run    *)
(* (main), the discovery coordinator, the Chromium and Firefox scanners    *)
(* and the locale resolver.                                                *)
(*                                                                         *)
(* Strings the code takes apart (browser names, manifest names, message    *)
(* keys) are sequences of one-character strings; strings the code only     *)
(* compares or copies (ids, versions, locale names) are TLA+ strings.      *)
(***************************************************************************)
EXTENDS Integers, Sequences, FiniteSets, TLC

(***************************************************************************)
(* Go's strings package                                                    *)
(***************************************************************************)
Upper == <<"A","B","C","D","E","F","G","H","I","J","K","L","M",
           "N","O","P","Q","R","S","T","U","V","W","X","Y","Z">>

Lower == <<"a","b","c","d","e","f","g","h","i","j","k","l","m",
           "n","o","p","q","r","s","t","u","v","w","x","y","z">>

\* unicode.ToLower on the letters A-Z; every other character is kept.
LowerTable == [c \in {Upper[i] : i \in DOMAIN Upper} |->
                  Lower[CHOOSE i \in DOMAIN Upper : Upper[i] = c]]

LowerChar(c) == IF c \in DOMAIN LowerTable THEN LowerTable[c] ELSE c

ToLower(s) == [i \in 1..Len(s) |-> LowerChar(s[i])]

HasPrefix(s, p) == Len(s) >= Len(p) /\ SubSeq(s, 1, Len(p)) = p

HasSuffix(s, p) == Len(s) >= Len(p) /\ SubSeq(s, Len(s) - Len(p) + 1, Len(s)) = p

TrimPrefix(s, p) == IF HasPrefix(s, p) THEN SubSeq(s, Len(p) + 1, Len(s)) ELSE s

TrimSuffix(s, p) == IF HasSuffix(s, p) THEN SubSeq(s, 1, Len(s) - Len(p)) ELSE s

Range(f) == {f[i] : i \in DOMAIN f}

(***************************************************************************)
(* Browser names and the Extension record                                  *)
(***************************************************************************)
Chrome == <<"C","h","r","o","m","e">>

Edge == <<"E","d","g","e">>

Firefox == <<"F","i","r","e","f","o","x">>

\* NewDB creates one table per name of this list.
browsersList == <<Chrome, Edge, Firefox>>

Extension(name, version, id, enabled, browser, profile) ==
    [Name |-> name, Version |-> version, ID |-> id, Enabled |-> enabled,
     Browser |-> browser, Profile |-> profile]

\* The identity of a record in the cache: PRIMARY KEY (id, profile, version).
Triple(e) == <<e.ID, e.Profile, e.Version>>

\* A Go slice of Extension: nil, or the elements (a nil slice has none).
NilExts == [nil |-> TRUE, items |-> <<>>]

Slice(items) == [nil |-> FALSE, items |-> items]

(***************************************************************************)
(* db: the SQLite cache.  A table is the sequence of its rows in insertion *)
(* order; tables are named <browser>_extensions and SQLite matches table   *)
(* names without regard to case.  Each row also carries wid, the number of *)
(* the UpdateExtensions call that inserted it (history, not a column).     *)
(***************************************************************************)
\* The names a run can be given with -browser (main.go leaves "" out: it
\* stands for all three), and their lower-case forms, computed once.
Opera == <<"O","p","e","r","a">>

BrowserInputs == {Chrome, Edge, Firefox, ToLower(Chrome), ToLower(Firefox), Opera}

LowerName == [b \in BrowserInputs |-> ToLower(b)]

TableName(browser) == LowerName[browser]

NewDB == [t \in {TableName(browsersList[i]) : i \in DOMAIN browsersList} |-> <<>>]

\* 30*time.Minute, in seconds (timestamps are time.Now().Unix()).
FreshnessWindow == 1800

EnabledInt(b) == IF b THEN 1 ELSE 0

Row(ext, now, wid) ==
    [id |-> ext.ID, name |-> ext.Name, browser |-> ext.Browser,
     version |-> ext.Version, enabled |-> EnabledInt(ext.Enabled),
     profile |-> ext.Profile, timestamp |-> now, wid |-> wid]

RowKey(r) == <<r.id, r.profile, r.version>>

\* rows.Scan into an Extension, e.Enabled = enabledInt != 0
ScanRowEnabledInverted(r) ==
    Extension(r.name, r.version, r.id, r.enabled = 0, r.browser, r.profile)

ScanRow(r) ==
    Extension(r.name, r.version, r.id, r.enabled # 0, r.browser, r.profile)

RECURSIVE MaxOf(_)
MaxOf(S) ==
    LET x == CHOOSE y \in S : TRUE
    IN  IF S = {x} THEN x
        ELSE LET m == MaxOf(S \ {x}) IN IF x > m THEN x ELSE m

\* SELECT timestamp FROM t ORDER BY timestamp DESC LIMIT 1
NoRows == -1

LatestTimestamp(rows) ==
    IF rows = <<>> THEN NoRows ELSE MaxOf({rows[i].timestamp : i \in DOMAIN rows})

\* A snapshot that goes stale as it reaches thirty minutes.
IsStaleAtWindow(ts, now) == now - ts >= FreshnessWindow

\* time.Since(time.Unix(ts, 0)) > 30*time.Minute
IsStaleSwapped(ts, now) == ts - now > FreshnessWindow

IsStale(ts, now) == now - ts > FreshnessWindow

\* SELECT ... FROM t WHERE timestamp = ?
RowsAt(rows, ts) == SelectSeq(rows, LAMBDA r : r.timestamp = ts)

\* What the second half of DB.GetExtensions returns: every selected row
\* scanned into an Extension; a nil slice when no row was appended.
RowsResult(rows, ts) ==
    LET sel == RowsAt(rows, ts)
    IN  IF sel = <<>> THEN NilExts
        ELSE Slice([i \in DOMAIN sel |-> ScanRow(sel[i])])

\* The UpdateExtensions calls the selected rows were inserted by (history).
RowsOrigin(rows, ts) ==
    LET sel == RowsAt(rows, ts) IN {sel[i].wid : i \in DOMAIN sel}

\* DB.UpdateExtensions: the statements of the transaction, in order.  fault
\* names the statement the storage layer refuses ("none": no refusal); an
\* insert is also refused when its key is already in the table.
NoFault == [stmt |-> "none", i |-> 0]

FaultAt(stmt) == [stmt |-> stmt, i |-> 0]

Faults(E) ==
    {NoFault, FaultAt("begin"), FaultAt("clear"), FaultAt("commit")}
        \cup {[stmt |-> "insert", i |-> k] : k \in 1..Len(E)}

\* An insert loop that reads the clock for every row.
RECURSIVE InsertAllOwnClock(_, _, _, _, _, _)
InsertAllOwnClock(work, E, i, now, wid, fault) ==
    IF i > Len(E) THEN [ok |-> TRUE, rows |-> work]
    ELSE LET r == Row(E[i], now + i - 1, wid)
         IN  IF fault = [stmt |-> "insert", i |-> i] \/ \E j \in DOMAIN work : RowKey(work[j]) = RowKey(r)
             THEN [ok |-> FALSE, rows |-> work]
             ELSE InsertAllOwnClock(Append(work, r), E, i + 1, now, wid, fault)

RECURSIVE InsertAll(_, _, _, _, _, _)
InsertAll(work, E, i, now, wid, fault) ==
    IF i > Len(E) THEN [ok |-> TRUE, rows |-> work]
    ELSE LET r == Row(E[i], now, wid)
         IN  IF fault = [stmt |-> "insert", i |-> i] \/ \E j \in DOMAIN work : RowKey(work[j]) = RowKey(r)
             THEN [ok |-> FALSE, rows |-> work]
             ELSE InsertAll(Append(work, r), E, i + 1, now, wid, fault)

ClearTable(rows) == <<>>

UpdateNoRollback(tbls, browser, E, now, wid, fault) ==
    LET t == TableName(browser)
        ins == InsertAll(ClearTable(tbls[t]), E, 1, now, wid, fault)
    IN  IF fault.stmt = "begin" \/ t \notin DOMAIN tbls \/ fault.stmt = "clear"
        THEN [tables |-> tbls, err |-> TRUE]
        ELSE [tables |-> [tbls EXCEPT ![t] = ins.rows],
              err |-> ~ins.ok \/ fault.stmt = "commit"]

UpdateNoClear(tbls, browser, E, now, wid, fault) ==
    LET t == TableName(browser)
        ins == InsertAll(tbls[t], E, 1, now, wid, fault)
    IN  IF fault.stmt = "begin" \/ t \notin DOMAIN tbls \/ fault.stmt = "clear"
           \/ ~ins.ok \/ fault.stmt = "commit"
        THEN [tables |-> tbls, err |-> TRUE]
        ELSE [tables |-> [tbls EXCEPT ![t] = ins.rows], err |-> FALSE]

UpdateExtensions(tbls, browser, E, now, wid, fault) ==
    LET t == TableName(browser)
    IN  IF fault.stmt = "begin" THEN [tables |-> tbls, err |-> TRUE]
        ELSE IF t \notin DOMAIN tbls \/ fault.stmt = "clear"
        THEN [tables |-> tbls, err |-> TRUE]             \* tx.Rollback()
        ELSE LET ins == InsertAll(ClearTable(tbls[t]), E, 1, now, wid, fault)
             IN  IF ~ins.ok THEN [tables |-> tbls, err |-> TRUE]   \* tx.Rollback()
                 ELSE IF fault.stmt = "commit" THEN [tables |-> tbls, err |-> TRUE]
                 ELSE [tables |-> [tbls EXCEPT ![t] = ins.rows], err |-> FALSE]

(***************************************************************************)
(* resolveMessage: the name behind a __MSG_key__ placeholder.              *)
(*                                                                         *)
(* loc is the _locales directory of one version directory:                 *)
(*   dir      "missing" (os.Stat: not exist), "unreadable" (os.ReadDir     *)
(*            fails) or "ok"                                               *)
(*   entries  what os.ReadDir returns, in its order: [name, isDir]         *)
(*   files    locale name -> messages.json: [state, table], state one of   *)
(*            "unreadable", "malformed", "ok"; a locale outside the domain *)
(*            has no messages.json; table maps a key to its message        *)
(* The result carries opened, the locales whose messages.json the call     *)
(* passed to os.ReadFile, in order (history).                              *)
(***************************************************************************)
MsgPrefix == <<"_","_","M","S","G","_">>

MsgSuffix == <<"_","_">>

EnglishLocales == <<"en", "en_US">>

\* os.ReadFile followed by json.Unmarshal on <localesPath>/<locale>/messages.json
ReadMessages(loc, locale) ==
    IF loc.dir = "missing" \/ locale \notin DOMAIN loc.files
    THEN [state |-> "missing", table |-> <<>>]
    ELSE loc.files[locale]

\* The two lookups the other way round: lower case first.
LookupMessageLowerFirst(table, lookupKeyOriginal, lookupKey) ==
    IF lookupKey \in DOMAIN table
    THEN [hit |-> TRUE, name |-> table[lookupKey]]
    ELSE IF lookupKeyOriginal \in DOMAIN table
    THEN [hit |-> TRUE, name |-> table[lookupKeyOriginal]]
    ELSE [hit |-> FALSE, name |-> <<>>]

\* The two lookups in one table: original case first, then lower case.
LookupMessage(table, lookupKeyOriginal, lookupKey) ==
    IF lookupKeyOriginal \in DOMAIN table
    THEN [hit |-> TRUE, name |-> table[lookupKeyOriginal]]
    ELSE IF lookupKey \in DOMAIN table
    THEN [hit |-> TRUE, name |-> table[lookupKey]]
    ELSE [hit |-> FALSE, name |-> <<>>]

\* A loop that gives up at the first file it cannot read or parse.
RECURSIVE FirstMatchStopsAtBadFile(_, _, _, _, _, _)
FirstMatchStopsAtBadFile(loc, locales, i, lookupKeyOriginal, lookupKey, opened) ==
    IF i > Len(locales) THEN [hit |-> FALSE, name |-> <<>>, opened |-> opened]
    ELSE LET f == ReadMessages(loc, locales[i])
             o == Append(opened, locales[i])
             m == LookupMessage(f.table, lookupKeyOriginal, lookupKey)
         IN  IF f.state \in {"unreadable", "malformed"}
             THEN [hit |-> FALSE, name |-> <<>>, opened |-> o]
             ELSE IF f.state = "ok" /\ m.hit
             THEN [hit |-> TRUE, name |-> m.name, opened |-> o]
             ELSE FirstMatchStopsAtBadFile(loc, locales, i + 1, lookupKeyOriginal,
                                           lookupKey, o)

\* One of the three loops: the locales in order, return on the first hit.
RECURSIVE FirstMatch(_, _, _, _, _, _)
FirstMatch(loc, locales, i, lookupKeyOriginal, lookupKey, opened) ==
    IF i > Len(locales) THEN [hit |-> FALSE, name |-> <<>>, opened |-> opened]
    ELSE LET f == ReadMessages(loc, locales[i])
             o == Append(opened, locales[i])
             m == LookupMessage(f.table, lookupKeyOriginal, lookupKey)
         IN  IF f.state = "ok" /\ m.hit
             THEN [hit |-> TRUE, name |-> m.name, opened |-> o]
             ELSE FirstMatch(loc, locales, i + 1, lookupKeyOriginal, lookupKey, o)

DefaultTier(defaultLocale) == IF defaultLocale # "" THEN <<defaultLocale>> ELSE <<>>

EnglishTier(defaultLocale) == SelectSeq(EnglishLocales, LAMBDA l : l # defaultLocale)

OtherTier(loc, defaultLocale) ==
    LET keep == SelectSeq(loc.entries,
                    LAMBDA d : d.isDir /\ d.name # defaultLocale
                               /\ d.name # "en" /\ d.name # "en_US")
    IN  [k \in DOMAIN keep |-> keep[k].name]

\* A resolver that falls back to its input, markers and all.
resolveMessageKeepsMarkers(msg, loc, defaultLocale) ==
    LET msgKey == TrimSuffix(TrimPrefix(msg, MsgPrefix), MsgSuffix)
        lookupKey == ToLower(msgKey)
        def == FirstMatch(loc, DefaultTier(defaultLocale), 1, msgKey, lookupKey,
                          <<>>)
        en == FirstMatch(loc, EnglishTier(defaultLocale), 1, msgKey, lookupKey,
                         def.opened)
        other == FirstMatch(loc, OtherTier(loc, defaultLocale), 1, msgKey,
                            lookupKey, en.opened)
    IN  IF loc.dir # "ok" THEN [name |-> msg, opened |-> <<>>]
        ELSE IF def.hit THEN [name |-> def.name, opened |-> def.opened]
        ELSE IF en.hit THEN [name |-> en.name, opened |-> en.opened]
        ELSE IF other.hit THEN [name |-> other.name, opened |-> other.opened]
        ELSE [name |-> msg, opened |-> other.opened]

resolveMessageEnglishFirst(msg, loc, defaultLocale) ==
    LET msgKey == TrimSuffix(TrimPrefix(msg, MsgPrefix), MsgSuffix)
        lookupKey == ToLower(msgKey)
        en == FirstMatch(loc, EnglishLocales, 1, msgKey, lookupKey, <<>>)
        def == FirstMatch(loc, DefaultTier(defaultLocale), 1, msgKey, lookupKey,
                          en.opened)
        other == FirstMatch(loc, OtherTier(loc, defaultLocale), 1, msgKey,
                            lookupKey, def.opened)
    IN  IF loc.dir # "ok" THEN [name |-> msgKey, opened |-> <<>>]
        ELSE IF en.hit THEN [name |-> en.name, opened |-> en.opened]
        ELSE IF def.hit THEN [name |-> def.name, opened |-> def.opened]
        ELSE IF other.hit THEN [name |-> other.name, opened |-> other.opened]
        ELSE [name |-> msgKey, opened |-> other.opened]

\* A resolver that tries the listed directories first, in listing order.
resolveMessageListingFirst(msg, loc, defaultLocale) ==
    LET msgKey == TrimSuffix(TrimPrefix(msg, MsgPrefix), MsgSuffix)
        lookupKey == ToLower(msgKey)
        dirs == SelectSeq(loc.entries, LAMBDA d : d.isDir)
        listed == FirstMatch(loc, [k \in DOMAIN dirs |-> dirs[k].name], 1, msgKey,
                             lookupKey, <<>>)
        def == FirstMatch(loc, DefaultTier(defaultLocale), 1, msgKey, lookupKey,
                          listed.opened)
        en == FirstMatch(loc, EnglishTier(defaultLocale), 1, msgKey, lookupKey,
                         def.opened)
    IN  IF loc.dir # "ok" THEN [name |-> msgKey, opened |-> <<>>]
        ELSE IF listed.hit THEN [name |-> listed.name, opened |-> listed.opened]
        ELSE IF def.hit THEN [name |-> def.name, opened |-> def.opened]
        ELSE IF en.hit THEN [name |-> en.name, opened |-> en.opened]
        ELSE [name |-> msgKey, opened |-> en.opened]

resolveMessage(msg, loc, defaultLocale) ==
    LET msgKey == TrimSuffix(TrimPrefix(msg, MsgPrefix), MsgSuffix)
        lookupKey == ToLower(msgKey)
        def == FirstMatch(loc, DefaultTier(defaultLocale), 1, msgKey, lookupKey,
                          <<>>)
        en == FirstMatch(loc, EnglishTier(defaultLocale), 1, msgKey, lookupKey,
                         def.opened)
        other == FirstMatch(loc, OtherTier(loc, defaultLocale), 1, msgKey,
                            lookupKey, en.opened)
    IN  IF loc.dir = "missing" THEN [name |-> msgKey, opened |-> <<>>]
        ELSE IF loc.dir = "unreadable" THEN [name |-> msgKey, opened |-> <<>>]
        ELSE IF def.hit THEN [name |-> def.name, opened |-> def.opened]
        ELSE IF en.hit THEN [name |-> en.name, opened |-> en.opened]
        ELSE IF other.hit THEN [name |-> other.name, opened |-> other.opened]
        ELSE [name |-> msgKey, opened |-> other.opened]

\* getChromiumExtensions, the name of one manifest: resolved only when it
\* starts with __MSG_.
ResolvedName(manifestName, loc, defaultLocale) ==
    IF HasPrefix(manifestName, MsgPrefix)
    THEN resolveMessage(manifestName, loc, defaultLocale)
    ELSE [name |-> manifestName, opened |-> <<>>]

(***************************************************************************)
(* DB.GetExtensions as one call: both queries against the same table       *)
(* state.  fault names the query the storage layer refuses.                *)
(***************************************************************************)
ReadFaults == {"none", "timestamp", "rows"}

DB_GetExtensions(tbls, browser, now, fault) ==
    LET t == TableName(browser)
        ts == LatestTimestamp(tbls[t])
    IN  IF t \notin DOMAIN tbls \/ fault = "timestamp"
        THEN [exts |-> NilExts, err |-> TRUE]
        ELSE IF ts = NoRows THEN [exts |-> NilExts, err |-> FALSE]
        ELSE IF IsStale(ts, now) THEN [exts |-> NilExts, err |-> FALSE]
        ELSE IF fault = "rows" THEN [exts |-> NilExts, err |-> TRUE]
        ELSE [exts |-> RowsResult(tbls[t], ts), err |-> FALSE]

(***************************************************************************)
(* Go slices: append(a, b...) and a result that failed                     *)
(***************************************************************************)
AppendAll(a, b) == IF b.items = <<>> THEN a ELSE Slice(a.items \o b.items)

RECURSIVE Concat(_)
Concat(ss) == IF ss = <<>> THEN <<>> ELSE Head(ss) \o Concat(Tail(ss))

Failed == [exts |-> NilExts, err |-> TRUE]

Returned(exts) == [exts |-> exts, err |-> FALSE]

(***************************************************************************)
(* getChromiumExtensions.  ud is the user-data directory                   *)
(* filepath.Dir(basePath):                                                 *)
(*   stat        "missing" (os.Stat: not exist) or "ok"                    *)
(*   localState  [state, names]: state "missing", "malformed" or "ok",     *)
(*               names the info_cache: profile directory -> name           *)
(*   list        "unreadable" (os.ReadDir fails) or "ok"                   *)
(*   entries     what os.ReadDir returns: [name, isDir, extensions]        *)
(* extensions is the Extensions directory of a profile: [stat, dirs], stat *)
(* "missing", "unreadable" or "ok", dirs the entries [name, isDir, list,   *)
(* versions]; a version entry is [name, isDir, manifest, locales] with     *)
(* manifest [state, Name, Version, DefaultLocale], state "unreadable",     *)
(* "malformed" or "ok", and locales the _locales directory.                *)
(***************************************************************************)
Default == <<"D","e","f","a","u","l","t">>

ProfilePrefix == <<"P","r","o","f","i","l","e">>

\* lines 17-39
ProfileNames(ud) ==
    IF ud.localState.state = "ok" THEN ud.localState.names ELSE <<>>

\* lines 56-59
ProfileName(profileNames, profileDir) ==
    IF profileDir \in DOMAIN profileNames /\ profileNames[profileDir] # <<>>
    THEN profileNames[profileDir]
    ELSE profileDir

\* lines 91-129: one version entry
VersionExtensions(ver, extensionID, config, profileName) ==
    IF ~ver.isDir THEN <<>>
    ELSE IF ver.manifest.state # "ok" THEN <<>>
    ELSE << Extension(ResolvedName(ver.manifest.Name, ver.locales,
                                   ver.manifest.DefaultLocale).name,
                      ver.manifest.Version, extensionID, TRUE, config.Name,
                      profileName) >>

\* lines 78-130: one entry of the Extensions directory
ExtensionDirExtensions(dir, config, profileName) ==
    IF ~dir.isDir THEN <<>>
    ELSE IF dir.list # "ok" THEN <<>>
    ELSE Concat([k \in DOMAIN dir.versions |->
                    VersionExtensions(dir.versions[k], dir.name, config, profileName)])

\* A scan that fails at a profile holding a manifest it cannot use.
RECURSIVE ScanProfilesStrict(_, _, _, _, _)
ScanProfilesStrict(entries, i, profileNames, config, allExtensions) ==
    IF i > Len(entries) THEN Returned(allExtensions)
    ELSE LET entry == entries[i]
             profileName == ProfileName(profileNames, entry.name)
             dirs == entry.extensions.dirs
         IN  IF ~entry.isDir
                \/ (entry.name # Default /\ ~HasPrefix(entry.name, ProfilePrefix))
                \/ entry.extensions.stat = "missing"
             THEN ScanProfilesStrict(entries, i + 1, profileNames, config,
                                     allExtensions)
             ELSE IF entry.extensions.stat = "unreadable" THEN Failed
             ELSE IF \E k \in DOMAIN dirs : \E v \in DOMAIN dirs[k].versions :
                        /\ dirs[k].isDir /\ dirs[k].list = "ok"
                        /\ dirs[k].versions[v].isDir
                        /\ dirs[k].versions[v].manifest.state # "ok"
             THEN Failed
             ELSE ScanProfilesStrict(entries, i + 1, profileNames, config,
                      AppendAll(allExtensions,
                          Slice(Concat([k \in DOMAIN dirs |->
                              ExtensionDirExtensions(dirs[k], config, profileName)]))))

\* A scan of the Default profile alone.
RECURSIVE ScanProfilesDefaultOnly(_, _, _, _, _)
ScanProfilesDefaultOnly(entries, i, profileNames, config, allExtensions) ==
    IF i > Len(entries) THEN Returned(allExtensions)
    ELSE LET entry == entries[i]
             profileName == ProfileName(profileNames, entry.name)
             dirs == entry.extensions.dirs
         IN  IF ~entry.isDir \/ entry.name # Default
                \/ entry.extensions.stat = "missing"
             THEN ScanProfilesDefaultOnly(entries, i + 1, profileNames, config,
                                          allExtensions)
             ELSE IF entry.extensions.stat = "unreadable" THEN Failed
             ELSE ScanProfilesDefaultOnly(entries, i + 1, profileNames, config,
                      AppendAll(allExtensions,
                          Slice(Concat([k \in DOMAIN dirs |->
                              ExtensionDirExtensions(dirs[k], config, profileName)]))))

\* lines 47-131: the profiles from entry i on
RECURSIVE ScanProfiles(_, _, _, _, _)
ScanProfiles(entries, i, profileNames, config, allExtensions) ==
    IF i > Len(entries) THEN Returned(allExtensions)
    ELSE LET entry == entries[i]
             profileName == ProfileName(profileNames, entry.name)
             dirs == entry.extensions.dirs
         IN  IF ~entry.isDir
             THEN ScanProfiles(entries, i + 1, profileNames, config, allExtensions)
             ELSE IF entry.name # Default /\ ~HasPrefix(entry.name, ProfilePrefix)
             THEN ScanProfiles(entries, i + 1, profileNames, config, allExtensions)
             ELSE IF entry.extensions.stat = "missing"
             THEN ScanProfiles(entries, i + 1, profileNames, config, allExtensions)
             ELSE IF entry.extensions.stat = "unreadable" THEN Failed
             ELSE ScanProfiles(entries, i + 1, profileNames, config,
                      AppendAll(allExtensions,
                          Slice(Concat([k \in DOMAIN dirs |->
                              ExtensionDirExtensions(dirs[k], config, profileName)]))))

getChromiumExtensions(ud, config) ==
    IF ud.stat = "missing" THEN Failed
    ELSE IF ud.list # "ok" THEN Failed
    ELSE ScanProfiles(ud.entries, 1, ProfileNames(ud), config, NilExts)

(***************************************************************************)
(* getFirefoxExtensions.  ff is the Firefox root basePath:                 *)
(*   stat      "missing" or "ok"                                           *)
(*   ini       profiles.ini: [state, lines], state "unreadable" or "ok",   *)
(*             lines the text split at "\n"                                *)
(*   profiles  profile path -> extensions.json: [state, addons], state     *)
(*             "unreadable", "malformed" or "ok"; a path outside the       *)
(*             domain has no extensions.json                               *)
(* Paths are clean slash-separated paths.                                  *)
(***************************************************************************)
WhiteSpace == {" ", "\t", "\r", "\n"}

RECURSIVE TrimLeft(_)
TrimLeft(s) ==
    IF s # <<>> /\ Head(s) \in WhiteSpace THEN TrimLeft(Tail(s)) ELSE s

RECURSIVE TrimRight(_)
TrimRight(s) ==
    IF s # <<>> /\ s[Len(s)] \in WhiteSpace
    THEN TrimRight(SubSeq(s, 1, Len(s) - 1)) ELSE s

TrimSpace(s) == TrimRight(TrimLeft(s))

PathKey == <<"P","a","t","h","=">>

Slash == "/"

IsAbs(path) == path # <<>> /\ path[1] = Slash

Join(base, path) == IF path = <<>> THEN base ELSE base \o <<Slash>> \o path

RECURSIVE StripSlashes(_)
StripSlashes(path) ==
    IF path # <<>> /\ path[Len(path)] = Slash
    THEN StripSlashes(SubSeq(path, 1, Len(path) - 1)) ELSE path

Base(path) ==
    LET p == StripSlashes(path)
        cut == {i \in DOMAIN p : p[i] = Slash}
    IN  IF path = <<>> THEN <<".">>
        ELSE IF p = <<>> THEN <<Slash>>
        ELSE IF cut = {} THEN p
        ELSE SubSeq(p, MaxOf(cut) + 1, Len(p))

\* A registry read that stops at the first Path= entry.
RECURSIVE IniProfilesFirstOnly(_, _, _, _)
IniProfilesFirstOnly(lines, i, currentSection, profiles) ==
    IF i > Len(lines) THEN profiles
    ELSE LET line == TrimSpace(lines[i])
         IN  IF HasPrefix(line, <<"[">>) /\ HasSuffix(line, <<"]">>)
             THEN IniProfilesFirstOnly(lines, i + 1, line, profiles)
             ELSE IF HasPrefix(line, PathKey) /\ currentSection # <<>>
             THEN Append(profiles, TrimPrefix(line, PathKey))
             ELSE IniProfilesFirstOnly(lines, i + 1, currentSection, profiles)

\* lines 266-296: the Path= entries under a section, in file order.  (The
\* Default=1 branch sets defaultProfilePath, which only diagnostics read.)
RECURSIVE IniProfiles(_, _, _, _)
IniProfiles(lines, i, currentSection, profiles) ==
    IF i > Len(lines) THEN profiles
    ELSE LET line == TrimSpace(lines[i])
         IN  IF HasPrefix(line, <<"[">>) /\ HasSuffix(line, <<"]">>)
             THEN IniProfiles(lines, i + 1, line, profiles)
             ELSE IF HasPrefix(line, PathKey) /\ currentSection # <<>>
             THEN IniProfiles(lines, i + 1, currentSection,
                              Append(profiles, TrimPrefix(line, PathKey)))
             ELSE IniProfiles(lines, i + 1, currentSection, profiles)

\* lines 333-343
AddonExtensions(addons, config, profilePath) ==
    [k \in DOMAIN addons |->
        Extension(addons[k].Name, addons[k].Version, addons[k].ID,
                  addons[k].Active, config.Name, Base(profilePath))]

\* A scan that ends at a profile without extensions.json, with what it has.
RECURSIVE ScanFirefoxProfilesStopAtMissing(_, _, _, _, _, _)
ScanFirefoxProfilesStopAtMissing(ff, basePath, profiles, i, config, allExtensions) ==
    IF i > Len(profiles) THEN Returned(allExtensions)
    ELSE LET profilePath == IF IsAbs(profiles[i]) THEN profiles[i]
                            ELSE Join(basePath, profiles[i])
         IN  IF profilePath \notin DOMAIN ff.profiles
             THEN Returned(allExtensions)
             ELSE IF ff.profiles[profilePath].state # "ok" THEN Failed
             ELSE ScanFirefoxProfilesStopAtMissing(ff, basePath, profiles, i + 1,
                      config,
                      AppendAll(allExtensions,
                          Slice(AddonExtensions(ff.profiles[profilePath].addons,
                                                config, profilePath))))

\* A scan that skips a profile whose extensions.json cannot be parsed.
RECURSIVE ScanFirefoxProfilesSkipMalformed(_, _, _, _, _, _)
ScanFirefoxProfilesSkipMalformed(ff, basePath, profiles, i, config, allExtensions) ==
    IF i > Len(profiles) THEN Returned(allExtensions)
    ELSE LET profilePath == IF IsAbs(profiles[i]) THEN profiles[i]
                            ELSE Join(basePath, profiles[i])
         IN  IF profilePath \notin DOMAIN ff.profiles
             THEN ScanFirefoxProfilesSkipMalformed(ff, basePath, profiles, i + 1, config,
                                      allExtensions)
             ELSE IF ff.profiles[profilePath].state = "unreadable" THEN Failed
             ELSE IF ff.profiles[profilePath].state = "malformed"
             THEN ScanFirefoxProfilesSkipMalformed(ff, basePath, profiles, i + 1,
                                                   config, allExtensions)
             ELSE ScanFirefoxProfilesSkipMalformed(ff, basePath, profiles, i + 1, config,
                      AppendAll(allExtensions,
                          Slice(AddonExtensions(ff.profiles[profilePath].addons,
                                                config, profilePath))))

\* lines 299-344: the profiles from entry i on
RECURSIVE ScanFirefoxProfiles(_, _, _, _, _, _)
ScanFirefoxProfiles(ff, basePath, profiles, i, config, allExtensions) ==
    IF i > Len(profiles) THEN Returned(allExtensions)
    ELSE LET profilePath == IF IsAbs(profiles[i]) THEN profiles[i]
                            ELSE Join(basePath, profiles[i])
         IN  IF profilePath \notin DOMAIN ff.profiles
             THEN ScanFirefoxProfiles(ff, basePath, profiles, i + 1, config,
                                      allExtensions)
             ELSE IF ff.profiles[profilePath].state = "unreadable" THEN Failed
             ELSE IF ff.profiles[profilePath].state = "malformed" THEN Failed
             ELSE ScanFirefoxProfiles(ff, basePath, profiles, i + 1, config,
                      AppendAll(allExtensions,
                          Slice(AddonExtensions(ff.profiles[profilePath].addons,
                                                config, profilePath))))

getFirefoxExtensions(ff, basePath, config) ==
    IF ff.stat = "missing" THEN Failed
    ELSE IF ff.ini.state # "ok" THEN Failed
    ELSE ScanFirefoxProfiles(ff, basePath, IniProfiles(ff.ini.lines, 1, <<>>, <<>>),
                             1, config, NilExts)

(***************************************************************************)
(* State                                                                   *)
(***************************************************************************)
VARIABLES
    tables,     \* the cache file: table name -> rows
    clock,      \* time.Now().Unix()
    writes,     \* number of UpdateExtensions calls so far (history)
    lastCall,   \* the last UpdateExtensions call on the cache (history)
    rd,         \* the DB.GetExtensions call of the observed process
    locIn,      \* the manifest name, _locales directory and default_locale
    locOut,     \* the name resolved from them
    run,        \* one invocation of the tool (main)
    scanIn,     \* what a scanner is started on
    scanOut     \* what it returns

cacheVars == <<tables, clock, writes, lastCall, rd>>

locVars == <<locIn, locOut>>

runVars == <<run>>

scanVars == <<scanIn, scanOut>>

vars == <<tables, clock, writes, lastCall, rd, locIn, locOut, run, scanIn, scanOut>>

NoLocalesDir == [dir |-> "missing", entries |-> <<>>, files |-> <<>>]

NoRun == [pc |-> "off"]

RunIdle == run = NoRun

NotScanned == [done |-> FALSE, exts |-> NilExts, err |-> FALSE]

ScanIdle ==
    /\ scanIn = [kind |-> "off"]
    /\ scanOut = NotScanned

LocaleIdle ==
    /\ locIn = [msg |-> <<>>, loc |-> NoLocalesDir, defaultLocale |-> ""]
    /\ locOut = [done |-> FALSE, name |-> <<>>, opened |-> <<>>]

(***************************************************************************)
(* The cache under concurrent use.  Two invocations of the tool share the  *)
(* cache file.  DB.GetExtensions is two queries, each its own implicit     *)
(* transaction; DB.UpdateExtensions is one transaction, which SQLite makes *)
(* visible to the other connection at commit only.  The reads of "self"    *)
(* are observed; "self" and "other" both write.                            *)
(***************************************************************************)
Procs == {"self", "other"}

MaxListLen == 2

MaxWrites == 2

MaxClock == 1801

ClockSteps == {FreshnessWindow, FreshnessWindow + 1}

CacheBrowsers == <<Chrome, Firefox>>

ExtUniverse ==
    { Extension(<<"A">>, "1.0", "aaa", TRUE, Chrome, <<"P">>),
      Extension(<<"B">>, "2.0", "bbb", FALSE, Chrome, <<"P">>) }

ExtLists == UNION {[1..k -> ExtUniverse] : k \in 0..MaxListLen}

NoRead ==
    [pc |-> "idle", browser |-> <<>>, ts |-> NoRows, at |-> 0, stored |-> {},
     rows |-> 0, seq |-> 0, faulted |-> FALSE, result |-> NilExts, from |-> {},
     err |-> FALSE]

NoCall ==
    [n |-> 0, table |-> <<>>, E |-> <<>>, at |-> 0, err |-> FALSE,
     before |-> <<>>, others |-> TRUE]

CacheIdle ==
    /\ writes = 0
    /\ lastCall = NoCall
    /\ rd = NoRead

CacheInit ==
    /\ tables = NewDB
    /\ clock = 0
    /\ CacheIdle
    /\ LocaleIdle
    /\ RunIdle
    /\ ScanIdle

Tick(d) ==
    /\ clock + d <= MaxClock
    /\ clock' = clock + d
    /\ UNCHANGED <<tables, writes, lastCall, rd, locVars, runVars, scanVars>>

\* DB.UpdateExtensions(browser, E), by the other process at any time and by
\* the observed one between its own calls.  A finished read has returned, so
\* its record is dropped.
CallUpdate(p, browser, E, fault) ==
    /\ p = "self" => rd.pc # "rows"
    /\ writes < MaxWrites
    /\ LET r == UpdateExtensions(tables, browser, E, clock, writes + 1, fault)
           t == TableName(browser)
       IN  /\ tables' = r.tables
           /\ lastCall' =
                 [n |-> writes + 1, table |-> t, E |-> E, at |-> clock,
                  err |-> r.err, before |-> tables[t],
                  others |-> \A u \in DOMAIN tables \ {t} : r.tables[u] = tables[u]]
    /\ writes' = writes + 1
    /\ rd' = IF rd.pc = "rows" THEN rd ELSE NoRead
    /\ UNCHANGED <<clock, locVars, runVars, scanVars>>

\* DB.GetExtensions(browser), first query and the freshness test
ReadTimestamp(browser, fault) ==
    /\ rd.pc # "rows"
    /\ LET t == TableName(browser)
           ts == LatestTimestamp(tables[t])
           call == [NoRead EXCEPT !.browser = browser, !.at = clock,
                                  !.stored = {tables[t][k].timestamp : k \in DOMAIN tables[t]},
                                  !.rows = Len(tables[t]), !.seq = writes,
                                  !.faulted = fault]
       IN  rd' = IF fault THEN [call EXCEPT !.pc = "done", !.err = TRUE]
                 ELSE IF ts = NoRows THEN [call EXCEPT !.pc = "done"]
                 ELSE IF IsStale(ts, clock) THEN [call EXCEPT !.pc = "done", !.ts = ts]
                 ELSE [call EXCEPT !.pc = "rows", !.ts = ts]
    /\ UNCHANGED <<tables, clock, writes, lastCall, locVars, runVars, scanVars>>

\* DB.GetExtensions(browser), second query
ReadRows(fault) ==
    /\ rd.pc = "rows"
    /\ LET t == TableName(rd.browser)
       IN  rd' = IF fault
                 THEN [rd EXCEPT !.pc = "done", !.err = TRUE, !.faulted = TRUE]
                 ELSE [rd EXCEPT !.pc = "done",
                                 !.result = RowsResult(tables[t], rd.ts),
                                 !.from = RowsOrigin(tables[t], rd.ts)]
    /\ UNCHANGED <<tables, clock, writes, lastCall, locVars, runVars, scanVars>>

CacheNext ==
    \/ \E d \in ClockSteps : Tick(d)
    \/ /\ writes < MaxWrites
       /\ \E i \in DOMAIN CacheBrowsers, E \in ExtLists :
          \E fault \in Faults(E) :
             CallUpdate(IF rd.pc = "rows" THEN "other" ELSE "self",
                        CacheBrowsers[i], E, fault)
    \/ \E i \in DOMAIN CacheBrowsers, fault \in BOOLEAN :
          ReadTimestamp(CacheBrowsers[i], fault)
    \/ \E fault \in BOOLEAN : ReadRows(fault)

SpecCache == CacheInit /\ [][CacheNext]_vars

(***************************************************************************)
(* Name resolution on its own: every input of a bounded set of manifest    *)
(* names, _locales directories and default locales.                        *)
(***************************************************************************)
MaxLocales == 2

\* os.ReadDir returns the entries sorted by file name.
LocaleOrder == <<"de", "en", "en_US", "fr">>

LocaleSet == {LocaleOrder[i] : i \in DOMAIN LocaleOrder}

DefaultLocales == {"", "en", "fr"}

Key == <<"N","m">>

OtherKey == <<"X">>

ManifestNames ==
    { Key,                                  \* Nm
      MsgPrefix \o Key \o MsgSuffix,        \* __MSG_Nm__
      MsgPrefix \o Key,                     \* __MSG_Nm
      Key \o MsgSuffix,                     \* Nm__
      MsgPrefix \o MsgSuffix }              \* __MSG___

\* The message of a key in a locale names the locale and the key's case.
Message(locale, case) == <<locale, case>>

FileChoices == {"unreadable", "malformed", "nokey", "orig", "lower", "both"}

MessagesFile(locale, choice) ==
    IF choice \in {"unreadable", "malformed"}
    THEN [state |-> choice, table |-> <<>>]
    ELSE [state |-> "ok",
          table |-> CASE choice = "nokey" -> (OtherKey :> Message(locale, "x"))
                      [] choice = "orig" -> (Key :> Message(locale, "o"))
                      [] choice = "lower" -> (ToLower(Key) :> Message(locale, "l"))
                      [] choice = "both" -> (Key :> Message(locale, "o"))
                                            @@ (ToLower(Key) :> Message(locale, "l"))]

\* A file that is no directory, sorted before the locales.
StrayEntry == [name |-> "LICENSE", isDir |-> FALSE]

LocalesDir(dir, choices) ==
    LET present == SelectSeq(LocaleOrder, LAMBDA l : l \in DOMAIN choices)
    IN  [dir |-> dir,
         entries |-> <<StrayEntry>>
                     \o [k \in DOMAIN present |-> [name |-> present[k], isDir |-> TRUE]],
         files |-> [l \in DOMAIN choices |-> MessagesFile(l, choices[l])]]

LocalesDirs ==
    {NoLocalesDir} \cup
    { LocalesDir(dir, choices) :
        dir \in {"ok", "unreadable"},
        choices \in UNION { [S -> FileChoices] :
                              S \in {T \in SUBSET LocaleSet : Cardinality(T) <= MaxLocales} } }

LocaleInit ==
    /\ locIn \in [msg : ManifestNames, loc : LocalesDirs, defaultLocale : DefaultLocales]
    /\ locOut = [done |-> FALSE, name |-> <<>>, opened |-> <<>>]
    /\ tables = NewDB
    /\ clock = 0
    /\ CacheIdle
    /\ RunIdle
    /\ ScanIdle

\* getChromiumExtensions lines 116-119 on one manifest
Resolve ==
    /\ ~locOut.done
    /\ LET r == ResolvedName(locIn.msg, locIn.loc, locIn.defaultLocale)
       IN  locOut' = [done |-> TRUE, name |-> r.name, opened |-> r.opened]
    /\ UNCHANGED <<locIn, cacheVars, runVars, scanVars>>

LocaleNext == Resolve

SpecLocale == LocaleInit /\ [][LocaleNext]_vars

(***************************************************************************)
(* On-disk states of the three browsers a run is started on.               *)
(***************************************************************************)
Profile1 == ProfilePrefix \o <<" ","1">>

ManifestOK(name, version, defaultLocale) ==
    [state |-> "ok", Name |-> name, Version |-> version,
     DefaultLocale |-> defaultLocale]

NoManifest == [state |-> "unreadable", Name |-> <<>>, Version |-> "",
               DefaultLocale |-> ""]

VersionDir(name, manifest, locales) ==
    [name |-> name, isDir |-> TRUE, manifest |-> manifest, locales |-> locales]

ExtensionDir(id, versions) ==
    [name |-> id, isDir |-> TRUE, list |-> "ok", versions |-> versions]

ExtensionsDir(dirs) == [stat |-> "ok", dirs |-> dirs]

NoExtensionsDir == [stat |-> "missing", dirs |-> <<>>]

ProfileDir(name, extensions) ==
    [name |-> name, isDir |-> TRUE, extensions |-> extensions]

PlainFile(name) == [name |-> name, isDir |-> FALSE, extensions |-> NoExtensionsDir]

NoLocalState == [state |-> "missing", names |-> <<>>]

\* No user-data directory.
UserDataMissing ==
    [stat |-> "missing", localState |-> NoLocalState, list |-> "ok",
     entries |-> <<>>]

\* Profiles Default (named W in Local State) and Profile 1 with one
\* extension each, next to a directory that is no profile and a file.
UserDataTwo ==
    [stat |-> "ok",
     localState |-> [state |-> "ok", names |-> (Default :> <<"W">>)],
     list |-> "ok",
     entries |->
       << ProfileDir(<<"C">>, ExtensionsDir(<<
              ExtensionDir("zzz", <<VersionDir("9.0_0",
                  ManifestOK(<<"Z">>, "9.0", ""), NoLocalesDir)>>)>>)),
          ProfileDir(Default, ExtensionsDir(<<
              ExtensionDir("aaa", <<
                  VersionDir("1.0_0",
                      ManifestOK(MsgPrefix \o Key \o MsgSuffix, "1.0", "en"),
                      LocalesDir("ok", "en" :> "orig")),
                  VersionDir("1.1_0", NoManifest, NoLocalesDir)>>)>>)),
          PlainFile(<<"L">>),
          ProfileDir(Profile1, ExtensionsDir(<<
              ExtensionDir("bbb", <<VersionDir("2.0_0",
                  ManifestOK(<<"B">>, "2.0", ""), NoLocalesDir)>>)>>)) >>]

\* The same, but the Extensions directory of Profile 1 cannot be read.
UserDataBadProfile ==
    [UserDataTwo EXCEPT !.entries[4].extensions =
                            [stat |-> "unreadable", dirs |-> <<>>]]

\* One profile, no Local State.
UserDataOne ==
    [stat |-> "ok", localState |-> NoLocalState, list |-> "ok",
     entries |->
       << ProfileDir(Default, ExtensionsDir(<<
              ExtensionDir("ccc", <<VersionDir("3.0_0",
                  ManifestOK(<<"E">>, "3.0", ""), NoLocalesDir)>>)>>)) >>]

\* the Firefox base path (filepath.Join(homeDir, ...)), kept short
FirefoxRoot == <<"/","f">>

Addon(id, version, active, name) ==
    [ID |-> id, Version |-> version, Active |-> active, Name |-> name]

AddonsFile(addons) == [state |-> "ok", addons |-> addons]

\* No Firefox root.
FirefoxMissing ==
    [stat |-> "missing", ini |-> [state |-> "unreadable", lines |-> <<>>],
     profiles |-> <<>>]

\* [P0] Path=a  [P1] Path=/b Default=1: a relative and an absolute profile.
FirefoxTwo ==
    [stat |-> "ok",
     ini |-> [state |-> "ok",
              lines |-> << <<"[","P","0","]">>,
                           <<"P","a","t","h","=","a">>,
                           <<>>,
                           <<"[","P","1","]","\r">>,
                           <<"P","a","t","h","=","/","b","\r">>,
                           <<"D","e","f","a","u","l","t","=","1">> >>],
     profiles |->
        (Join(FirefoxRoot, <<"a">>)
            :> AddonsFile(<<Addon("fff", "4.0", FALSE, <<"F">>)>>))
        @@ (<<"/","b">>
            :> AddonsFile(<<Addon("ggg", "5.0", TRUE, <<"G">>)>>))]

\* The same, but profiles.ini cannot be read.
FirefoxNoIni ==
    [FirefoxTwo EXCEPT !.ini = [state |-> "unreadable", lines |-> <<>>]]

\* The same, but the extensions.json of the second profile does not parse.
FirefoxBadProfile ==
    [FirefoxTwo EXCEPT !.profiles[<<"/","b">>] =
                           [state |-> "malformed", addons |-> <<>>]]

ChromeDisks == {"missing", "two", "bad profile"}

EdgeDisks == {"missing", "one"}

FirefoxDisks == {"no root", "no ini", "two profiles", "bad addons"}

Disk(id) ==
    CASE id = "missing" -> UserDataMissing
      [] id = "two" -> UserDataTwo
      [] id = "bad profile" -> UserDataBadProfile
      [] id = "one" -> UserDataOne
      [] id = "no root" -> FirefoxMissing
      [] id = "no ini" -> FirefoxNoIni
      [] id = "two profiles" -> FirefoxTwo
      [] id = "bad addons" -> FirefoxBadProfile

Disks ==
    { (Chrome :> c) @@ (Edge :> e) @@ (Firefox :> f) :
        c \in ChromeDisks, e \in EdgeDisks, f \in FirefoxDisks }

AnyDisk == (Chrome :> "two") @@ (Edge :> "one") @@ (Firefox :> "two profiles")

\* Every disk state where the home directory resolves on a supported OS,
\* and one disk state where it does not or the OS is not supported.
Envs ==
    { [homeOK |-> TRUE, goos |-> "linux", disk |-> d] : d \in Disks }
    \cup { [homeOK |-> FALSE, goos |-> "linux", disk |-> AnyDisk],
           [homeOK |-> TRUE, goos |-> "plan9", disk |-> AnyDisk] }

(***************************************************************************)
(* BrowserInventory.GetExtensions.  env is what the process finds:         *)
(*   homeOK  os.UserHomeDir succeeds                                       *)
(*   goos    runtime.GOOS                                                  *)
(*   disk    config name -> what is under that browser's base path (Disk)  *)
(* The result also carries scanned, the configs whose scanner ran, and     *)
(* warnings, the configs line 99 printed a warning for (history).          *)
(***************************************************************************)
Config(name, isFirefox) == [Name |-> name, IsFirefox |-> isFirefox]

configs == <<Config(Chrome, FALSE), Config(Edge, FALSE), Config(Firefox, TRUE)>>

SupportedOS == {"windows", "darwin", "linux"}

\* lines 92-97
ScanConfig(config, env) ==
    IF config.IsFirefox
    THEN getFirefoxExtensions(Disk(env.disk[config.Name]), FirefoxRoot, config)
    ELSE getChromiumExtensions(Disk(env.disk[config.Name]), config)

\* lines 72-103: the configs from entry i on
RECURSIVE ScanConfigs(_, _, _, _)
ScanConfigs(selectedBrowser, env, i, acc) ==
    IF i > Len(configs) THEN acc
    ELSE LET config == configs[i]
             exts == ScanConfig(config, env)
         IN  IF selectedBrowser # <<>>
                /\ ToLower(config.Name) # ToLower(selectedBrowser)
             THEN ScanConfigs(selectedBrowser, env, i + 1, acc)
             ELSE IF env.goos \notin SupportedOS
             THEN ScanConfigs(selectedBrowser, env, i + 1, acc)
             ELSE IF exts.err
             THEN ScanConfigs(selectedBrowser, env, i + 1,
                      [acc EXCEPT !.scanned = Append(@, config.Name),
                                  !.warnings = Append(@, config.Name)])
             ELSE ScanConfigs(selectedBrowser, env, i + 1,
                      [acc EXCEPT !.scanned = Append(@, config.Name),
                                  !.exts = AppendAll(@, exts.exts)])

NothingScanned == [exts |-> NilExts, err |-> FALSE, scanned |-> <<>>, warnings |-> <<>>]

\* A coordinator that gives up on the first scanner failure.
BrowserInventory_GetExtensionsFailFast(selectedBrowser, env) ==
    LET r == ScanConfigs(selectedBrowser, env, 1, NothingScanned)
    IN  IF ~env.homeOK THEN [NothingScanned EXCEPT !.err = TRUE]
        ELSE IF r.warnings # <<>>
        THEN [NothingScanned EXCEPT !.err = TRUE, !.scanned = r.scanned]
        ELSE r

BrowserInventory_GetExtensions(selectedBrowser, env) ==
    IF ~env.homeOK THEN [NothingScanned EXCEPT !.err = TRUE]
    ELSE ScanConfigs(selectedBrowser, env, 1, NothingScanned)

(***************************************************************************)
(* main.  run holds the flags, env, the loop's variables and, as history,  *)
(* the calls made: cacheReads (DB.GetExtensions), scans                    *)
(* (BrowserInventory.GetExtensions, with the age the browser's snapshot    *)
(* had then, -1 for none), scanned, warnings, cacheWrites                  *)
(* (DB.UpdateExtensions), diagnostics (the messages main writes to stderr  *)
(* under -debug).  The scanners and resolveMessage use debug as the guard  *)
(* of fmt.Printf calls only, so their operators have no such parameter.    *)
(***************************************************************************)
\* lines 34-37
browserList(browser) == IF browser # <<>> THEN <<browser>> ELSE browsersList

Pending == [kind |-> "pending", Extensions |-> NilExts, Total |-> 0]

InitialRun(browser, jsonOutput, debug, updateCache, env) ==
    [pc |-> "start", browser |-> browser, jsonOutput |-> jsonOutput,
     debug |-> debug, updateCache |-> updateCache, env |-> env,
     browserList |-> <<>>, i |-> 1, allExtensions |-> NilExts,
     fetchError |-> FALSE,
     cacheReads |-> <<>>, scans |-> <<>>, scanned |-> <<>>, warnings |-> <<>>,
     cacheWrites |-> <<>>, diagnostics |-> <<>>, stdout |-> Pending, exit |-> -1]

SnapshotAge(tbls, browser, now) ==
    IF TableName(browser) \notin DOMAIN tbls THEN -1
    ELSE IF LatestTimestamp(tbls[TableName(browser)]) = NoRows THEN -1
    ELSE now - LatestTimestamp(tbls[TableName(browser)])

WriteFaults == Faults(<<1>>)

\* A loop body that consults the cache whatever -update-cache says.
LoopBodyReadsAlways(r, tbls, now, readFault, writeFault) ==
    LET b == r.browserList[r.i]
        cached == DB_GetExtensions(tbls, b, now, readFault)
        fetched == BrowserInventory_GetExtensions(b, r.env)
        written == UpdateExtensions(tbls, b, fetched.exts.items, now,
                                    Len(r.cacheWrites) + 1, writeFault)
        r1 == [r EXCEPT !.i = @ + 1, !.cacheReads = Append(@, b)]
        r2 == [r1 EXCEPT !.scans = Append(@, [browser |-> b,
                                              age |-> SnapshotAge(tbls, b, now)]),
                         !.scanned = @ \o fetched.scanned,
                         !.warnings = @ \o fetched.warnings]
    IN  IF ~cached.err /\ ~cached.exts.nil
        THEN [run |-> [r1 EXCEPT !.allExtensions = AppendAll(@, cached.exts)],
              tables |-> tbls]
        ELSE IF fetched.err
        THEN [run |-> [r2 EXCEPT !.fetchError = TRUE], tables |-> tbls]
        ELSE [run |-> [r2 EXCEPT !.allExtensions = AppendAll(@, fetched.exts),
                                 !.cacheWrites = Append(@, [browser |-> b,
                                                            err |-> written.err])],
              tables |-> written.tables]

\* A loop body that goes on to the scan after a cache hit.
LoopBodyScansAfterHit(r, tbls, now, readFault, writeFault) ==
    LET b == r.browserList[r.i]
        cached == IF ~r.updateCache THEN DB_GetExtensions(tbls, b, now, readFault)
                  ELSE Returned(NilExts)
        fetched == BrowserInventory_GetExtensions(b, r.env)
        written == UpdateExtensions(tbls, b, fetched.exts.items, now,
                                    Len(r.cacheWrites) + 1, writeFault)
        r0 == [r EXCEPT !.i = @ + 1,
                        !.cacheReads = IF ~r.updateCache THEN Append(@, b) ELSE @,
                        !.allExtensions = AppendAll(@, cached.exts)]
        r2 == [r0 EXCEPT !.scans = Append(@, [browser |-> b,
                                              age |-> SnapshotAge(tbls, b, now)]),
                         !.scanned = @ \o fetched.scanned,
                         !.warnings = @ \o fetched.warnings]
    IN  IF fetched.err
        THEN [run |-> [r2 EXCEPT !.fetchError = TRUE], tables |-> tbls]
        ELSE [run |-> [r2 EXCEPT !.allExtensions =
                                     IF cached.exts.nil THEN AppendAll(@, fetched.exts)
                                     ELSE @,
                                 !.cacheWrites = Append(@, [browser |-> b,
                                                            err |-> written.err])],
              tables |-> written.tables]

\* lines 48-50, 62-64, 71-73: a message on stderr, under -debug only
Diagnose(r, what, b) ==
    IF r.debug THEN [r EXCEPT !.diagnostics = Append(@, <<what, b>>)] ELSE r

\* A loop body that, under -debug, leaves the cache as it is.
LoopBodyDebugNoWrite(r, tbls, now, readFault, writeFault) ==
    LET b == r.browserList[r.i]
        cached == IF ~r.updateCache THEN DB_GetExtensions(tbls, b, now, readFault)
                  ELSE Returned(NilExts)
        fetched == BrowserInventory_GetExtensions(b, r.env)
        written == IF r.debug THEN [tables |-> tbls, err |-> FALSE]
                   ELSE UpdateExtensions(tbls, b, fetched.exts.items, now,
                                         Len(r.cacheWrites) + 1, writeFault)
        r0 == [r EXCEPT !.i = @ + 1,
                        !.cacheReads = IF ~r.updateCache THEN Append(@, b) ELSE @]
        r1 == IF cached.err THEN Diagnose(r0, "read", b) ELSE r0
        r2 == [r1 EXCEPT !.scans = Append(@, [browser |-> b,
                                              age |-> SnapshotAge(tbls, b, now)]),
                         !.scanned = @ \o fetched.scanned,
                         !.warnings = @ \o fetched.warnings]
        r3 == [r2 EXCEPT !.allExtensions = AppendAll(@, fetched.exts),
                         !.cacheWrites = IF r.debug THEN @
                                         ELSE Append(@, [browser |-> b,
                                                         err |-> written.err])]
    IN  IF ~r.updateCache /\ ~cached.err /\ ~cached.exts.nil
        THEN [run |-> [r1 EXCEPT !.allExtensions = AppendAll(@, cached.exts)],
              tables |-> tbls]
        ELSE IF ~(cached.exts.nil \/ r.updateCache)
        THEN [run |-> r1, tables |-> tbls]
        ELSE IF fetched.err
        THEN [run |-> Diagnose([r2 EXCEPT !.fetchError = TRUE], "fetch", b),
              tables |-> tbls]
        ELSE [run |-> IF written.err THEN Diagnose(r3, "write", b) ELSE r3,
              tables |-> written.tables]

\* A loop body that drops the scanned records when the cache write fails.
LoopBodyWriteErrorDrops(r, tbls, now, readFault, writeFault) ==
    LET b == r.browserList[r.i]
        cached == IF ~r.updateCache THEN DB_GetExtensions(tbls, b, now, readFault)
                  ELSE Returned(NilExts)
        fetched == BrowserInventory_GetExtensions(b, r.env)
        written == UpdateExtensions(tbls, b, fetched.exts.items, now,
                                    Len(r.cacheWrites) + 1, writeFault)
        r0 == [r EXCEPT !.i = @ + 1,
                        !.cacheReads = IF ~r.updateCache THEN Append(@, b) ELSE @]
        r1 == IF cached.err THEN Diagnose(r0, "read", b) ELSE r0
        r2 == [r1 EXCEPT !.scans = Append(@, [browser |-> b,
                                              age |-> SnapshotAge(tbls, b, now)]),
                         !.scanned = @ \o fetched.scanned,
                         !.warnings = @ \o fetched.warnings]
        r3 == [r2 EXCEPT !.allExtensions = AppendAll(@, fetched.exts),
                         !.cacheWrites = Append(@, [browser |-> b,
                                                    err |-> written.err])]
    IN  IF ~r.updateCache /\ ~cached.err /\ ~cached.exts.nil
        THEN [run |-> [r1 EXCEPT !.allExtensions = AppendAll(@, cached.exts)],
              tables |-> tbls]
        ELSE IF ~(cached.exts.nil \/ r.updateCache)
        THEN [run |-> r1, tables |-> tbls]
        ELSE IF fetched.err
        THEN [run |-> Diagnose([r2 EXCEPT !.fetchError = TRUE], "fetch", b),
              tables |-> tbls]
        ELSE [run |-> IF written.err
                      THEN Diagnose([r3 EXCEPT !.allExtensions = r2.allExtensions], "write", b)
                      ELSE r3,
              tables |-> written.tables]

\* lines 43-78: one iteration of the loop
LoopBody(r, tbls, now, readFault, writeFault) ==
    LET b == r.browserList[r.i]
        cached == IF ~r.updateCache THEN DB_GetExtensions(tbls, b, now, readFault)
                  ELSE Returned(NilExts)
        fetched == BrowserInventory_GetExtensions(b, r.env)
        written == UpdateExtensions(tbls, b, fetched.exts.items, now,
                                    Len(r.cacheWrites) + 1, writeFault)
        r0 == [r EXCEPT !.i = @ + 1,
                        !.cacheReads = IF ~r.updateCache THEN Append(@, b) ELSE @]
        r1 == IF cached.err THEN Diagnose(r0, "read", b) ELSE r0
        r2 == [r1 EXCEPT !.scans = Append(@, [browser |-> b,
                                              age |-> SnapshotAge(tbls, b, now)]),
                         !.scanned = @ \o fetched.scanned,
                         !.warnings = @ \o fetched.warnings]
        r3 == [r2 EXCEPT !.allExtensions = AppendAll(@, fetched.exts),
                         !.cacheWrites = Append(@, [browser |-> b,
                                                    err |-> written.err])]
    IN  IF ~r.updateCache /\ ~cached.err /\ ~cached.exts.nil
        THEN [run |-> [r1 EXCEPT !.allExtensions = AppendAll(@, cached.exts)],
              tables |-> tbls]
        ELSE IF ~(cached.exts.nil \/ r.updateCache)
        THEN [run |-> r1, tables |-> tbls]
        ELSE IF fetched.err
        THEN [run |-> Diagnose([r2 EXCEPT !.fetchError = TRUE], "fetch", b),
              tables |-> tbls]
        ELSE [run |-> IF written.err THEN Diagnose(r3, "write", b) ELSE r3,
              tables |-> written.tables]

\* An output step that prints what was collected, fetch error or not.
RenderKeepsCollected(r) ==
    IF r.jsonOutput
    THEN [kind |-> "json", Extensions |-> r.allExtensions,
          Total |-> Len(r.allExtensions.items)]
    ELSE IF Len(r.allExtensions.items) = 0
         THEN [kind |-> "none found", Extensions |-> NilExts, Total |-> 0]
         ELSE [kind |-> "text", Extensions |-> r.allExtensions,
               Total |-> Len(r.allExtensions.items)]

\* lines 80-117
Render(r) ==
    IF r.jsonOutput
    THEN IF r.fetchError
         THEN [kind |-> "json", Extensions |-> Slice(<<>>), Total |-> 0]
         ELSE [kind |-> "json", Extensions |-> r.allExtensions,
               Total |-> Len(r.allExtensions.items)]
    ELSE IF Len(r.allExtensions.items) = 0
         THEN [kind |-> "none found", Extensions |-> NilExts, Total |-> 0]
         ELSE [kind |-> "text", Extensions |-> r.allExtensions,
               Total |-> Len(r.allExtensions.items)]

(***************************************************************************)
(* One run of the tool on a cache file left by earlier runs.               *)
(***************************************************************************)
\* What an earlier run stored for a browser, at time 0.
Stored(browser) ==
    IF browser = Chrome
    THEN <<Extension(<<"O">>, "0.9", "aaa", TRUE, Chrome, Default)>>
    ELSE <<Extension(<<"Q">>, "0.8", "fff", FALSE, Firefox, <<"a">>),
           Extension(<<"R">>, "0.7", "hhh", TRUE, Firefox, <<"a">>)>>

RECURSIVE StoreAll(_, _)
StoreAll(tbls, bs) ==
    IF bs = {} THEN tbls
    ELSE LET b == CHOOSE x \in bs : TRUE
         IN  StoreAll(UpdateExtensions(tbls, b, Stored(b), 0, 0, NoFault).tables,
                      bs \ {b})

InitialCaches == {StoreAll(NewDB, bs) : bs \in SUBSET {Chrome, Firefox}}

BrowserFlags == {<<>>} \cup BrowserInputs

RunInit ==
    /\ run \in { InitialRun(browser, jsonOutput, debug, updateCache, env) :
                    browser \in BrowserFlags, jsonOutput \in BOOLEAN,
                    debug \in BOOLEAN, updateCache \in BOOLEAN, env \in Envs }
    /\ tables \in InitialCaches
    /\ clock = 0
    /\ CacheIdle
    /\ LocaleIdle
    /\ ScanIdle

\* lines 26-37: NewDB on the cache file, then the browsers to query
Start(dbOK) ==
    /\ run.pc = "start"
    /\ run' = IF dbOK
              THEN [run EXCEPT !.pc = "loop",
                               !.browserList = browserList(run.browser)]
              ELSE [run EXCEPT !.pc = "done", !.exit = 1]
    /\ UNCHANGED <<tables, clock, writes, lastCall, rd, locVars, scanVars>>

Iterate(readFault, writeFault) ==
    /\ run.pc = "loop"
    /\ run.i <= Len(run.browserList)
    /\ LET next == LoopBody(run, tables, clock, readFault, writeFault)
       IN  /\ run' = next.run
           /\ tables' = next.tables
    /\ UNCHANGED <<clock, writes, lastCall, rd, locVars, scanVars>>

Output ==
    /\ run.pc = "loop"
    /\ run.i > Len(run.browserList)
    /\ run' = [run EXCEPT !.pc = "done", !.stdout = Render(run), !.exit = 0]
    /\ UNCHANGED <<tables, clock, writes, lastCall, rd, locVars, scanVars>>

RunNext ==
    \/ \E dbOK \in BOOLEAN : Start(dbOK)
    \/ \E readFault \in ReadFaults, writeFault \in WriteFaults :
           Iterate(readFault, writeFault)
    \/ Output
    \/ \E d \in ClockSteps : Tick(d)

SpecRun == RunInit /\ [][RunNext]_vars

(***************************************************************************)
(* The Chromium scanner on its own: every user-data directory of a bounded *)
(* family.  A directory is described by                                    *)
(*   top         "missing", "unlistable" or "ok"                           *)
(*   localState  "missing", "malformed", "named" (Default is named W,      *)
(*               Profile 1 has an empty name) or "same" (both named W)     *)
(*   leaves      the version directories, in scan order: [cell, choice];   *)
(*               cell 1..4 is (profile, extension directory) and choice    *)
(*               says what the version directory holds                     *)
(*   profiles    profile -> "ok" (it has leaves), "none" (no directory),   *)
(*               "noext" (no Extensions directory), "unreadable"           *)
(*               (Extensions cannot be read) or "empty"                    *)
(* Every level also holds a plain file, and a directory C that is no       *)
(* profile holds an extension of its own.                                  *)
(***************************************************************************)
MaxLeaves == 2

ProfileDirs == <<Default, Profile1>>

ExtensionIDs == <<"aaa", "bbb">>

Cells == 1..(Len(ProfileDirs) * Len(ExtensionIDs))

CellProfile(c) == (c + 1) \div 2

CellExtension(c) == ((c - 1) % 2) + 1

Placeholder == MsgPrefix \o Key \o MsgSuffix

\* "unreadable", "malformed": the manifest.  "one", "two": a literal name,
\* version 1.0 or 2.0.  "msg": a placeholder, the default locale fr does
\* not parse, en cannot be read and en_US has the key.  "key": a
\* placeholder, fr cannot be read and de does not parse.  "unlistable": the extension directory the
\* version is in cannot be read.
LeafChoices == {"unreadable", "malformed", "one", "two", "msg", "key", "unlistable"}

LeafManifest(choice) ==
    CASE choice = "malformed" ->
            [state |-> "malformed", Name |-> <<>>, Version |-> "", DefaultLocale |-> ""]
      [] choice = "one" -> ManifestOK(<<"B">>, "1.0", "")
      [] choice = "two" -> ManifestOK(<<"B">>, "2.0", "")
      [] choice = "msg" -> ManifestOK(Placeholder, "1.0", "fr")
      [] choice = "key" -> ManifestOK(Placeholder, "2.0", "fr")
      [] OTHER -> NoManifest

LeafLocales(choice) ==
    CASE choice = "msg" ->
            LocalesDir("ok", ("fr" :> "malformed") @@ ("en" :> "unreadable")
                             @@ ("en_US" :> "orig"))
      [] choice = "key" -> LocalesDir("ok", ("fr" :> "unreadable") @@ ("de" :> "malformed"))
      [] OTHER -> NoLocalesDir

PlainVersionFile ==
    [name |-> "x", isDir |-> FALSE, manifest |-> NoManifest, locales |-> NoLocalesDir]

PlainExtensionFile ==
    [name |-> "x", isDir |-> FALSE, list |-> "ok", versions |-> <<>>]

LeavesAt(leaves, c) == SelectSeq(leaves, LAMBDA l : l.cell = c)

ExtensionDirAt(leaves, c) ==
    LET ls == LeavesAt(leaves, c)
    IN  [name |-> ExtensionIDs[CellExtension(c)], isDir |-> TRUE,
         list |-> IF \E k \in DOMAIN ls : ls[k].choice = "unlistable"
                  THEN "unreadable" ELSE "ok",
         versions |-> [k \in DOMAIN ls |->
                          VersionDir(ToString(k) \o "_0", LeafManifest(ls[k].choice),
                                     LeafLocales(ls[k].choice))]
                      \o <<PlainVersionFile>>]

ProfileCells(p) == SelectSeq([c \in Cells |-> c], LAMBDA c : CellProfile(c) = p)

ProfileEntries(d, p) ==
    LET used == SelectSeq(ProfileCells(p), LAMBDA c : LeavesAt(d.leaves, c) # <<>>)
    IN  CASE d.profiles[p] = "none" -> <<>>
          [] d.profiles[p] = "noext" -> <<ProfileDir(ProfileDirs[p], NoExtensionsDir)>>
          [] d.profiles[p] = "unreadable" ->
                <<ProfileDir(ProfileDirs[p], [stat |-> "unreadable", dirs |-> <<>>])>>
          [] OTHER ->
                <<ProfileDir(ProfileDirs[p],
                      ExtensionsDir([k \in DOMAIN used |-> ExtensionDirAt(d.leaves, used[k])]
                                    \o <<PlainExtensionFile>>))>>

LocalStateOf(id) ==
    CASE id = "missing" -> NoLocalState
      [] id = "malformed" -> [state |-> "malformed", names |-> <<>>]
      [] id = "named" -> [state |-> "ok",
                          names |-> (Default :> <<"W">>) @@ (Profile1 :> <<>>)]
      [] id = "same" -> [state |-> "ok",
                         names |-> (Default :> <<"W">>) @@ (Profile1 :> <<"W">>)]

\* Ten extensions in the Default profile, one version each, the manifest of
\* one of them unreadable (or absent) or unparseable.
TenCount == 10

TenUserData(d) ==
    [stat |-> "ok", localState |-> NoLocalState, list |-> "ok",
     entries |->
        <<ProfileDir(Default, ExtensionsDir(
            [k \in 1..d.count |->
                ExtensionDir("e" \o ToString(k),
                    <<VersionDir("1_0",
                        IF k = d.corrupt THEN LeafManifest(d.how)
                        ELSE ManifestOK(<<"B">>, "1.0", ""),
                        NoLocalesDir)>>)]))>>]

UserData(d) ==
    IF d.kind = "ten" THEN TenUserData(d)
    ELSE
    [stat |-> IF d.top = "missing" THEN "missing" ELSE "ok",
     localState |-> LocalStateOf(d.localState),
     list |-> IF d.top = "unlistable" THEN "unreadable" ELSE "ok",
     entries |->
        <<ProfileDir(<<"C">>, ExtensionsDir(<<
              ExtensionDir("zzz", <<VersionDir("9_0",
                  ManifestOK(<<"Z">>, "9.0", ""), NoLocalesDir)>>)>>))>>
        \o ProfileEntries(d, 1)
        \o <<PlainFile(<<"L">>)>>
        \o ProfileEntries(d, 2)]

LeafLists(maxLen) ==
    { s \in UNION { [1..n -> [cell : Cells, choice : LeafChoices]] : n \in 0..maxLen } :
        \A i, j \in DOMAIN s : i < j => s[i].cell <= s[j].cell }

ProfileStates(leaves) ==
    { f \in [DOMAIN ProfileDirs -> {"ok", "none", "noext", "unreadable", "empty"}] :
        \A p \in DOMAIN ProfileDirs :
            f[p] = "ok" <=> \E k \in DOMAIN leaves : CellProfile(leaves[k].cell) = p }

ChromiumConfigs == { configs[k] : k \in { k \in DOMAIN configs : ~configs[k].IsFirefox } }

UserDataDescription(config, top, ls, leaves, profiles) ==
    [kind |-> "chromium", config |-> config, top |-> top, localState |-> ls,
     leaves |-> leaves, profiles |-> profiles]

\* A user-data directory that is missing holds nothing.
MissingUserData(config) ==
    UserDataDescription(config, "missing", "missing", <<>>,
                        [p \in DOMAIN ProfileDirs |-> "none"])

TenDescriptions(count) ==
    { [kind |-> "ten", config |-> config, count |-> count, corrupt |-> corrupt,
       how |-> how] :
        config \in ChromiumConfigs, corrupt \in 1..count,
        how \in {"unreadable", "malformed"} }

ChromiumInit ==
    /\ \/ \E config \in ChromiumConfigs, top \in {"unlistable", "ok"},
              ls \in {"missing", "malformed", "named", "same"},
              leaves \in LeafLists(MaxLeaves) :
                \E profiles \in ProfileStates(leaves) :
                    scanIn = UserDataDescription(config, top, ls, leaves, profiles)
       \/ \E config \in ChromiumConfigs : scanIn = MissingUserData(config)
       \/ scanIn \in TenDescriptions(TenCount)
    /\ scanOut = NotScanned
    /\ tables = NewDB
    /\ clock = 0
    /\ CacheIdle
    /\ LocaleIdle
    /\ RunIdle

\* BrowserInventory.GetExtensions lines 92-97, the call for one Chromium browser
ScanChromium ==
    /\ scanIn.kind \in {"chromium", "ten"}
    /\ ~scanOut.done
    /\ LET r == getChromiumExtensions(UserData(scanIn), scanIn.config)
       IN  scanOut' = [done |-> TRUE, exts |-> r.exts, err |-> r.err]
    /\ UNCHANGED <<scanIn, cacheVars, locVars, runVars>>

ChromiumNext == ScanChromium

SpecChromium == ChromiumInit /\ [][ChromiumNext]_vars

(***************************************************************************)
(* The Firefox scanner on its own: every Firefox root of a bounded family. *)
(* A root is described by                                                  *)
(*   top     "missing", "noini" (profiles.ini cannot be read) or "ok"      *)
(*   blocks  the Path= entries of profiles.ini, in file order:             *)
(*           header   a section header precedes the entry                  *)
(*           abs      the path is absolute                                 *)
(*           default  a Default=1 line follows the entry                   *)
(*           json     the extensions.json of the profile                   *)
(*   root    the profile directories of the root that profiles.ini does    *)
(*           not name: "none", "release" (x.default-release), "default"    *)
(*           (y.default) or "both", each with one addon                    *)
(***************************************************************************)
MaxBlocks == 2

\* "empty": no addon.  "one": one active addon.  "two": an active and an
\* inactive addon.  "noid": one addon without an id.
JsonChoices == {"missing", "unreadable", "malformed", "empty", "one", "two", "noid"}

BlockPath(k, abs) ==
    IF abs THEN <<Slash, "q", ToString(k)>> ELSE <<"p", ToString(k)>>

BlockLines(k, b) ==
    (IF b.header THEN << <<"[","P">> \o <<ToString(k)>> \o <<"]">> >> ELSE <<>>)
    \o << PathKey \o BlockPath(k, b.abs) \o (IF b.abs THEN <<"\r">> ELSE <<>>) >>
    \o (IF b.default THEN << <<"D","e","f","a","u","l","t","=","1">> >> ELSE <<>>)
    \o << <<>> >>

IniLines(blocks) == Concat([k \in DOMAIN blocks |-> BlockLines(k, blocks[k])])

BlockAddons(k, json) ==
    CASE json = "one" -> <<Addon("x" \o ToString(k), "1.0", TRUE, <<"X">>)>>
      [] json = "two" -> <<Addon("x" \o ToString(k), "1.0", TRUE, <<"X">>),
                           Addon("y" \o ToString(k), "2.0", FALSE, <<"Y">>)>>
      [] json = "noid" -> <<Addon("", "1.0", TRUE, <<"X">>)>>
      [] OTHER -> <<>>

BlockFile(k, json) ==
    IF json \in {"unreadable", "malformed"}
    THEN [state |-> json, addons |-> <<>>]
    ELSE AddonsFile(BlockAddons(k, json))

ProfilePath(k, b) ==
    IF b.abs THEN BlockPath(k, TRUE) ELSE Join(FirefoxRoot, BlockPath(k, FALSE))

ReleaseDir == <<"x",".","d","e","f","a","u","l","t","-","r","e","l","e","a","s","e">>

DefaultDir == <<"y",".","d","e","f","a","u","l","t">>

RootFiles(root) ==
    [p \in (IF root \in {"release", "both"} THEN {Join(FirefoxRoot, ReleaseDir)} ELSE {})
           \cup (IF root \in {"default", "both"} THEN {Join(FirefoxRoot, DefaultDir)} ELSE {})
        |-> AddonsFile(<<Addon(IF p = Join(FirefoxRoot, ReleaseDir) THEN "rrr" ELSE "ddd",
                               "3.0", TRUE, <<"R">>)>>)]

FirefoxDir(d) ==
    [stat |-> IF d.top = "missing" THEN "missing" ELSE "ok",
     ini |-> IF d.top = "ok" THEN [state |-> "ok", lines |-> IniLines(d.blocks)]
             ELSE [state |-> "unreadable", lines |-> <<>>],
     profiles |->
        [p \in { ProfilePath(k, d.blocks[k]) :
                    k \in { k \in DOMAIN d.blocks : d.blocks[k].json # "missing" } }
            |-> LET k == CHOOSE k \in DOMAIN d.blocks : ProfilePath(k, d.blocks[k]) = p
                IN  BlockFile(k, d.blocks[k].json)]
        @@ RootFiles(d.root)]

Blocks == [header : BOOLEAN, abs : BOOLEAN, default : BOOLEAN, json : JsonChoices]

FirefoxConfigs == { configs[k] : k \in { k \in DOMAIN configs : configs[k].IsFirefox } }

FirefoxDescription(config, top, blocks, root) ==
    [kind |-> "firefox", config |-> config, top |-> top, blocks |-> blocks,
     root |-> root]

RootChoices == {"none", "release", "default", "both"}

FirefoxInit ==
    \* A root that is missing holds nothing; a profiles.ini that cannot be
    \* read has no entries.
    /\ \E config \in FirefoxConfigs :
          \/ \E n \in 0..MaxBlocks : \E blocks \in [1..n -> Blocks], root \in RootChoices :
                scanIn = FirefoxDescription(config, "ok", blocks, root)
          \/ \E root \in RootChoices :
                scanIn = FirefoxDescription(config, "noini", <<>>, root)
          \/ scanIn = FirefoxDescription(config, "missing", <<>>, "none")
    /\ scanOut = NotScanned
    /\ tables = NewDB
    /\ clock = 0
    /\ CacheIdle
    /\ LocaleIdle
    /\ RunIdle

\* BrowserInventory.GetExtensions lines 92-97, the call for Firefox
ScanFirefox ==
    /\ scanIn.kind = "firefox"
    /\ ~scanOut.done
    /\ LET r == getFirefoxExtensions(FirefoxDir(scanIn), FirefoxRoot, scanIn.config)
       IN  scanOut' = [done |-> TRUE, exts |-> r.exts, err |-> r.err]
    /\ UNCHANGED <<scanIn, cacheVars, locVars, runVars>>

FirefoxNext == ScanFirefox

SpecFirefox == FirefoxInit /\ [][FirefoxNext]_vars

(***************************************************************************)
(* Claims about the cache (SpecCache)                                      *)
(***************************************************************************)
DistinctTriples(E) ==
    \A i, j \in DOMAIN E : Triple(E[i]) = Triple(E[j]) => i = j

\* The observed read ran to its end right after the last UpdateExtensions
\* call, on the same table, no later than the freshness window after it, and
\* the storage layer refused no statement of either call for a reason of its
\* own (disk, lock): the call failed, if it did, on a repeated key.
ReadFollowsLastCall ==
    /\ rd.pc = "done"
    /\ ~rd.faulted
    /\ lastCall.n > 0
    /\ lastCall.err => ~DistinctTriples(lastCall.E)
    /\ rd.seq = lastCall.n
    /\ TableName(rd.browser) = lastCall.table
    /\ rd.at - lastCall.at <= FreshnessWindow

\* C1 as stated: for every list E, UpdateExtensions(browser, E) immediately
\* followed by GetExtensions(browser) within the freshness window returns the
\* records of E.
C1_RoundTripAnyList ==
    ReadFollowsLastCall => Range(rd.result.items) = Range(lastCall.E)

\* C1 amended: for every list E whose (ID, Profile, Version) triples are
\* pairwise distinct, UpdateExtensions(browser, E) immediately followed by
\* GetExtensions(browser) within the freshness window returns exactly the
\* records of E, with the same Name, Version, ID, Enabled, Browser, Profile.
C1_RoundTrip ==
    (ReadFollowsLastCall /\ DistinctTriples(lastCall.E))
        => Range(rd.result.items) = Range(lastCall.E)

C1_Witness ==
    /\ ReadFollowsLastCall
    /\ DistinctTriples(lastCall.E)
    /\ Len(lastCall.E) = 2
    /\ rd.at = lastCall.at + FreshnessWindow
    /\ Len(rd.result.items) = 2

\* The snapshot the read found was fresh: there are rows, and the newest
\* timestamp among them is at most FreshnessWindow old when it is tested.
SnapshotFresh ==
    \E newest \in rd.stored :
       /\ \A ts \in rd.stored : ts <= newest
       /\ rd.at - newest <= FreshnessWindow

\* C2: GetExtensions returns a snapshot only when the newest stored timestamp
\* is at most 30 minutes old; when it is older, or nothing is stored, it
\* returns nil and no error.
C2_FreshOnly ==
    (rd.pc = "done" /\ ~rd.faulted)
        => /\ ~rd.result.nil => SnapshotFresh
           /\ ~SnapshotFresh => (rd.result.nil /\ ~rd.err)

C2_Witness ==
    /\ rd.pc = "done"
    /\ ~rd.faulted
    /\ rd.rows = 2
    /\ ~SnapshotFresh
    /\ rd.result.nil
    /\ ~rd.err

\* C4: a successful UpdateExtensions(browser, E) leaves in the browser's table
\* exactly the records of E, stamped with the time of the call, and none of
\* the prior rows; a failed one leaves the table as it was; no other table
\* changes.
C4_AtomicReplace ==
    lastCall.n > 0 =>
        LET after == tables[lastCall.table]
        IN  /\ lastCall.others
            /\ lastCall.err => after = lastCall.before
            /\ ~lastCall.err =>
                  /\ Len(after) = Len(lastCall.E)
                  /\ \A i \in DOMAIN after :
                        /\ ScanRow(after[i]) = lastCall.E[i]
                        /\ after[i].timestamp = lastCall.at
                        /\ after[i].wid = lastCall.n

C4_Witness ==
    /\ lastCall.n > 0
    /\ lastCall.err
    /\ Len(lastCall.E) = 2
    /\ lastCall.E[1] # lastCall.E[2]
    /\ Len(lastCall.before) = 2
    /\ lastCall.before[1].timestamp < clock

\* C5: the records one read returns were all inserted by one single
\* UpdateExtensions call, whatever is committed between its two queries.
C5_OneWritePerRead == rd.pc = "done" => Cardinality(rd.from) <= 1

\* A write committed between the two queries of the read, and the read still
\* returned records.
C5_Witness ==
    /\ rd.pc = "done"
    /\ rd.seq < writes
    /\ ~rd.result.nil
    /\ Len(rd.result.items) = 2

(***************************************************************************)
(* Claims about name resolution (SpecLocale)                               *)
(***************************************************************************)
\* The placeholder pattern __MSG_<key>__ of the specification.
IsPlaceholder(s) ==
    /\ Len(s) >= Len(MsgPrefix) + Len(MsgSuffix)
    /\ HasPrefix(s, MsgPrefix)
    /\ HasSuffix(s, MsgSuffix)

\* C9: a manifest name that does not match __MSG_<key>__ (a name that
\* starts with __MSG_ but lacks the trailing __ included) is returned
\* unchanged: the Extension name equals the manifest name.
C9_NonPlaceholderUnchanged ==
    (locOut.done /\ ~IsPlaceholder(locIn.msg)) => locOut.name = locIn.msg

\* The default locale is declared, its messages.json parses, and the table
\* has the key of the placeholder in its original case.
DefaultHasOriginalKey ==
    /\ IsPlaceholder(locIn.msg)
    /\ locIn.defaultLocale # ""
    /\ locIn.defaultLocale \in DOMAIN locIn.loc.files
    /\ locIn.loc.files[locIn.defaultLocale].state = "ok"
    /\ TrimSuffix(TrimPrefix(locIn.msg, MsgPrefix), MsgSuffix)
         \in DOMAIN locIn.loc.files[locIn.defaultLocale].table

DefaultOriginalMessage ==
    locIn.loc.files[locIn.defaultLocale].table[
        TrimSuffix(TrimPrefix(locIn.msg, MsgPrefix), MsgSuffix)]

MsgKey == TrimSuffix(TrimPrefix(locIn.msg, MsgPrefix), MsgSuffix)

HasKey(l) ==
    /\ l \in DOMAIN locIn.loc.files
    /\ locIn.loc.files[l].state = "ok"
    /\ \/ MsgKey \in DOMAIN locIn.loc.files[l].table
       \/ ToLower(MsgKey) \in DOMAIN locIn.loc.files[l].table

\* The message of the key in locale l: original case before lower case.
MessageIn(l) ==
    IF MsgKey \in DOMAIN locIn.loc.files[l].table
    THEN locIn.loc.files[l].table[MsgKey]
    ELSE locIn.loc.files[l].table[ToLower(MsgKey)]

\* The tier of a locale: default locale 1, en 2, en_US 3, any other 4.
Tier(l) ==
    IF l = locIn.defaultLocale THEN 1
    ELSE IF l = "en" THEN 2
    ELSE IF l = "en_US" THEN 3
    ELSE 4

\* The place of a locale directory in the listing of _locales (0: none).
Listed(l) ==
    LET at == {k \in DOMAIN locIn.loc.entries :
                  locIn.loc.entries[k].isDir /\ locIn.loc.entries[k].name = l}
    IN  IF at = {} THEN 0 ELSE CHOOSE k \in at : \A j \in at : k <= j

\* l is looked at no later than m.
Before(l, m) ==
    \/ Tier(l) < Tier(m)
    \/ Tier(l) = Tier(m) /\ Tier(l) < 4
    \/ Tier(l) = 4 /\ Tier(m) = 4 /\ Listed(l) <= Listed(m)

\* The locales resolveMessage can reach: the default locale, en, en_US and
\* every listed locale directory.
Reachable ==
    {l \in LocaleSet : l = locIn.defaultLocale \/ l \in {"en", "en_US"} \/ Listed(l) > 0}

Answering == {l \in Reachable : HasKey(l)}

Opened == Range(locOut.opened)

C12_BareKeyFallback ==
    (/\ locOut.done
     /\ IsPlaceholder(locIn.msg)
     /\ \/ locIn.loc.dir = "missing"
        \/ \A l \in DOMAIN locIn.loc.files : ~HasKey(l))
        => /\ locOut.name = SubSeq(locIn.msg, Len(MsgPrefix) + 1,
                                   Len(locIn.msg) - Len(MsgSuffix))
           /\ locOut.name # locIn.msg

\* The default locale fr and en are both readable and neither has Nm or nm:
\* every tier was tried and the name is Nm.
C12_Witness ==
    /\ locOut.done
    /\ locIn.msg = MsgPrefix \o Key \o MsgSuffix
    /\ locIn.loc.dir = "ok"
    /\ locIn.defaultLocale = "fr"
    /\ DOMAIN locIn.loc.files = {"fr", "en"}
    /\ \A l \in {"fr", "en"} : locIn.loc.files[l].state = "ok" /\ ~HasKey(l)
    /\ locOut.opened = <<"fr", "en", "en_US">>
    /\ locOut.name = Key

\* C13 (as the spec states it): the name resolved for a placeholder is
\* never empty, the placeholder with the empty key __MSG___ included.
C13_NameNeverEmpty ==
    (locOut.done /\ IsPlaceholder(locIn.msg)) => locOut.name # <<>>

(***************************************************************************)
(* Claims about a run (SpecRun)                                            *)
(***************************************************************************)
\* The configs a browser name selects (browsers.go line 73).
Selects(browser) ==
    LET hit == SelectSeq(configs, LAMBDA c : ToLower(c.Name) = ToLower(browser))
    IN  [k \in DOMAIN hit |-> hit[k].Name]

\* The browsers the loop has gone through so far.
Visited == SubSeq(run.browserList, 1, run.i - 1)

\* C3: with -update-cache set, the run never calls DB.GetExtensions and
\* passes every selected browser to the live scan, whose scanner runs
\* (where the home directory resolves and the OS is supported), whatever
\* the age of the browser's snapshot.
C3_ForcedRefresh ==
    run.updateCache =>
        /\ run.cacheReads = <<>>
        /\ [k \in DOMAIN run.scans |-> run.scans[k].browser] = Visited
        /\ (run.env.homeOK /\ run.env.goos \in SupportedOS)
              => run.scanned = Concat([k \in DOMAIN Visited |-> Selects(Visited[k])])

\* A forced run has scanned Chrome while its snapshot was zero seconds old.
C3_Witness ==
    /\ run.pc = "done"
    /\ run.exit = 0
    /\ run.updateCache
    /\ \E k \in DOMAIN run.scans :
          run.scans[k].browser = Chrome /\ run.scans[k].age = 0
    /\ Chrome \in Range(run.scanned)
    /\ \E k \in DOMAIN run.cacheWrites :
          run.cacheWrites[k].browser = Chrome /\ ~run.cacheWrites[k].err

\* What the scanner of the config named c returns on this run's disk.
ScanResult(c) ==
    ScanConfig(configs[CHOOSE k \in DOMAIN configs : configs[k].Name = c], run.env)

\* The records of browser c in the output.
Printed(c) == SelectSeq(run.stdout.Extensions.items, LAMBDA e : e.Browser = c)

\* C6: a browser whose scan fails contributes a warning and no record, and
\* every other scanned browser has exactly the records of its scan in the
\* output.
C6_FailureIsolation ==
    (run.pc = "done" /\ run.exit = 0) =>
        \A c \in Range(run.scanned) :
            IF ScanResult(c).err
            THEN c \in Range(run.warnings) /\ Printed(c) = <<>>
            ELSE c \notin Range(run.warnings)
                 /\ Printed(c) = ScanResult(c).exts.items

\* Chrome's scan fails on its second profile, and the two Firefox records
\* are in the JSON output all the same.
C6_Witness ==
    /\ run.pc = "done"
    /\ run.exit = 0
    /\ run.jsonOutput
    /\ run.env.disk[Chrome] = "bad profile"
    /\ Chrome \in Range(run.warnings)
    /\ Printed(Chrome) = <<>>
    /\ Firefox \in Range(run.scanned)
    /\ Firefox \notin Range(run.warnings)
    /\ Len(Printed(Firefox)) = 2
    /\ run.stdout.Total = Len(Printed(Firefox)) + Len(Printed(Edge))

\* C7 (as the spec states it): browser selection is case-insensitive, and a
\* name that is none of Chrome, Edge, Firefox is rejected with an error
\* before any cache access or scan.
C7_UnknownBrowserRejected ==
    /\ (run.browser # <<>> /\ Selects(run.browser) = <<>>)
          => /\ run.cacheReads = <<>>
             /\ run.scans = <<>>
             /\ run.cacheWrites = <<>>
             /\ run.pc = "done" => run.exit # 0
    /\ (run.browser # <<>> /\ run.scanned # <<>>)
          => run.scanned = Selects(run.browser)

\* C8 (as the spec states it): when the home directory cannot be resolved
\* the run stops at the first live scan and exits non-zero, without going on
\* to the remaining browsers and without output.
C8_HomeFailureAborts ==
    (~run.env.homeOK /\ run.scans # <<>>)
        => /\ Len(run.scans) = 1
           /\ run.pc = "done" => (run.exit # 0 /\ run.stdout = Pending)

(***************************************************************************)
(* Claims about the Chromium scanner (SpecChromium)                        *)
(***************************************************************************)
\* The scan of the description gets through: the user-data directory can
\* be listed and so can every Extensions directory that is there.
GetsThrough(d) ==
    /\ d.top = "ok"
    /\ \A p \in DOMAIN d.profiles : d.profiles[p] # "unreadable"

\* The name Local State gives the profile, else its directory name.
ProfileLabel(d, p) ==
    IF d.localState = "same" \/ (d.localState = "named" /\ p = 1)
    THEN <<"W">> ELSE ProfileDirs[p]

LeafListed(d, k) ==
    \A j \in DOMAIN d.leaves :
        d.leaves[j].cell = d.leaves[k].cell => d.leaves[j].choice # "unlistable"

LeafValid(d, k) == d.leaves[k].choice \in {"one", "two", "msg", "key"}

LeafName(choice) ==
    CASE choice = "msg" -> Message("en_US", "o")
      [] choice = "key" -> Key
      [] OTHER -> <<"B">>

LeafVersion(choice) == IF choice \in {"one", "msg"} THEN "1.0" ELSE "2.0"

LeafRecord(d, k) ==
    Extension(LeafName(d.leaves[k].choice), LeafVersion(d.leaves[k].choice),
              ExtensionIDs[CellExtension(d.leaves[k].cell)], TRUE, d.config.Name,
              ProfileLabel(d, CellProfile(d.leaves[k].cell)))

Returns(e) == \E i \in DOMAIN scanOut.exts.items : scanOut.exts.items[i] = e

\* C14: a locale message file that cannot be read or parsed counts as no
\* match at that locale.  The scan fails exactly when a directory of profiles
\* or of extensions cannot be listed, whatever the locale files are like; an
\* extension whose default locale and en are bad is returned under the en_US
\* message, and one whose locale files are all bad under its bare key.
C14_BadLocaleFileSkipped ==
    (scanOut.done /\ scanIn.kind = "chromium") =>
        /\ scanOut.err <=> ~GetsThrough(scanIn)
        /\ GetsThrough(scanIn) =>
              \A k \in DOMAIN scanIn.leaves :
                  (scanIn.leaves[k].choice \in {"msg", "key"} /\ LeafListed(scanIn, k))
                      => Returns(LeafRecord(scanIn, k))

\* Both kinds of extension in one scan, after a profile that has none.
C14_Witness ==
    /\ scanOut.done /\ scanIn.kind = "chromium" /\ ~scanOut.err
    /\ Len(scanIn.leaves) = 2
    /\ scanIn.leaves[1].choice = "msg" /\ scanIn.leaves[2].choice = "key"
    /\ Len(scanOut.exts.items) = 2
    /\ scanOut.exts.items[1].Name = Message("en_US", "o")
    /\ scanOut.exts.items[2].Name = Key

\* The version directories that hold a usable manifest, in scan order.
ValidLeaves(d) ==
    SelectSeq([k \in DOMAIN d.leaves |-> k],
              LAMBDA k : LeafValid(d, k) /\ LeafListed(d, k))

ExpectedRecords(d) ==
    [i \in DOMAIN ValidLeaves(d) |-> LeafRecord(d, ValidLeaves(d)[i])]

TenID(k) == "e" \o ToString(k)

\* C16: a manifest that is missing, unreadable or unparseable is skipped for
\* its version directory only.  With one such manifest among ten extensions
\* the scan returns the other nine without an error; and in every scan that
\* gets through, each version directory with a usable manifest yields its
\* record and the others yield none.
C16_BadManifestSkipped ==
    scanOut.done =>
        /\ scanIn.kind = "ten" =>
              /\ ~scanOut.err
              /\ Len(scanOut.exts.items) = TenCount - 1
              /\ \A k \in 1..TenCount :
                    k # scanIn.corrupt
                        <=> \E i \in DOMAIN scanOut.exts.items :
                                scanOut.exts.items[i].ID = TenID(k)
        /\ (scanIn.kind = "chromium" /\ GetsThrough(scanIn)) =>
              /\ ~scanOut.err
              /\ Len(scanOut.exts.items) = Len(ValidLeaves(scanIn))
              /\ \A k \in DOMAIN scanIn.leaves :
                    (LeafValid(scanIn, k) /\ LeafListed(scanIn, k))
                        => Returns(LeafRecord(scanIn, k))

\* Nine records of ten extensions, the manifest of the fourth unparseable.
C16_Witness ==
    /\ scanOut.done /\ scanIn.kind = "ten"
    /\ scanIn.corrupt = 4 /\ scanIn.how = "malformed"
    /\ ~scanOut.err
    /\ Len(scanOut.exts.items) = 9
    /\ scanOut.exts.items[4].ID = TenID(5)

(***************************************************************************)
(* Claims about the Firefox scanner (SpecFirefox)                          *)
(***************************************************************************)
\* The entry follows a section header of profiles.ini.
UnderSection(d, k) == \E j \in 1..k : d.blocks[j].header

BadJson(d, k) == d.blocks[k].json \in {"unreadable", "malformed"}

\* The scan of the description gets through: profiles.ini can be read and
\* so can the extensions.json of every entry under a section that has one.
FirefoxGetsThrough(d) ==
    /\ d.top = "ok"
    /\ \A k \in DOMAIN d.blocks : UnderSection(d, k) => ~BadJson(d, k)

\* The directory name of the profile of entry k.
BlockTag(d, k) ==
    IF d.blocks[k].abs THEN <<"q", ToString(k)>> ELSE <<"p", ToString(k)>>

BlockRecords(d, k) ==
    LET addons == BlockAddons(k, d.blocks[k].json)
    IN  [i \in DOMAIN addons |->
            Extension(addons[i].Name, addons[i].Version, addons[i].ID,
                      addons[i].Active, d.config.Name, BlockTag(d, k))]

FirefoxExpected(d) ==
    Concat([k \in DOMAIN d.blocks |->
               IF UnderSection(d, k) THEN BlockRecords(d, k) ELSE <<>>])

RootRecord(d, id, dir) == Extension(<<"R">>, "3.0", id, TRUE, d.config.Name, dir)

\* C18: when profiles.ini can be read and yields no profile, the profile
\* directory of the root whose name contains .default-release is scanned,
\* and the one whose name contains .default when there is no such directory.
C18_RootFallback ==
    (/\ scanOut.done /\ scanIn.kind = "firefox" /\ scanIn.top = "ok"
     /\ \A k \in DOMAIN scanIn.blocks : ~UnderSection(scanIn, k)) =>
        /\ scanIn.root \in {"release", "both"}
              => Returns(RootRecord(scanIn, "rrr", ReleaseDir))
        /\ scanIn.root = "default"
              => Returns(RootRecord(scanIn, "ddd", DefaultDir))

MissingJson(d, k) == UnderSection(d, k) /\ d.blocks[k].json = "missing"

\* C19: a registered profile without extensions.json contributes nothing and
\* no error.  In a scan that no unreadable or unparseable extensions.json
\* stops, no record carries the name of such a profile, and the addons of
\* every other registered profile, before or after it, are returned.
C19_MissingRegistrySkipped ==
    (/\ scanOut.done /\ scanIn.kind = "firefox" /\ FirefoxGetsThrough(scanIn)
     /\ \E k \in DOMAIN scanIn.blocks : MissingJson(scanIn, k)) =>
        /\ ~scanOut.err
        /\ \A k \in DOMAIN scanIn.blocks :
              IF MissingJson(scanIn, k)
              THEN \A i \in DOMAIN scanOut.exts.items :
                       scanOut.exts.items[i].Profile # BlockTag(scanIn, k)
              ELSE UnderSection(scanIn, k) =>
                       \A i \in DOMAIN BlockRecords(scanIn, k) :
                           Returns(BlockRecords(scanIn, k)[i])

\* The first profile has no extensions.json, the second has two addons.
C19_Witness ==
    /\ scanOut.done /\ scanIn.kind = "firefox" /\ ~scanOut.err
    /\ Len(scanIn.blocks) = 2
    /\ MissingJson(scanIn, 1)
    /\ scanIn.blocks[2].json = "two"
    /\ Len(scanOut.exts.items) = 2
    /\ \A i \in 1..2 : scanOut.exts.items[i].Profile = BlockTag(scanIn, 2)

\* C20: every record a Firefox scan returns has a non-empty ID and a
\* non-empty Browser.
C20_NonEmptyIDAndBrowser ==
    (scanOut.done /\ scanIn.kind = "firefox") =>
        \A i \in DOMAIN scanOut.exts.items :
            /\ scanOut.exts.items[i].ID # ""
            /\ scanOut.exts.items[i].Browser # <<>>

(***************************************************************************)
(* Claims about one run, continued (SpecRun)                               *)
(***************************************************************************)
\* The run without -debug and without what -debug printed.
Quiet(r) == [r EXCEPT !.debug = FALSE, !.diagnostics = <<>>]

\* C21: diagnostics never change control flow.  From every state of a run
\* with -debug, each iteration of the loop and the output step do to the
\* records, the cache, the calls made and the exit status exactly what they
\* do in the run without -debug from the same state; the run without -debug
\* prints no diagnostics.
C21_DebugChangesNothing ==
    (run.pc = "loop" /\ run.debug) =>
        IF run.i <= Len(run.browserList)
        THEN \A readFault \in ReadFaults, writeFault \in WriteFaults :
                LET loud == LoopBody(run, tables, clock, readFault, writeFault)
                    quiet == LoopBody(Quiet(run), tables, clock, readFault,
                                      writeFault)
                IN  /\ Quiet(loud.run) = quiet.run
                    /\ loud.tables = quiet.tables
        ELSE Render(run) = Render(Quiet(run))

\* A run with -debug that printed a diagnostic, scanned, wrote the cache and
\* put out records.
C21_Witness ==
    /\ run.pc = "done" /\ run.debug /\ run.exit = 0
    /\ run.diagnostics # <<>>
    /\ run.scans # <<>> /\ run.cacheWrites # <<>>
    /\ run.stdout.Total > 0

\* The browser has a snapshot in the cache that is within the freshness
\* window.
FreshSnapshot(b) ==
    /\ SnapshotAge(tables, b, clock) >= 0
    /\ SnapshotAge(tables, b, clock) <= FreshnessWindow

SnapshotRecords(b) ==
    [k \in DOMAIN tables[TableName(b)] |-> ScanRow(tables[TableName(b)][k])]

RecoverableFailure(b, env) ==
    /\ env.homeOK
    /\ \E k \in DOMAIN configs : ToLower(configs[k].Name) = ToLower(b)
    /\ \/ env.goos \notin SupportedOS
       \/ BrowserInventory_GetExtensions(b, env).warnings # <<>>

\* C23: when the scan of a browser fails in a recoverable way, the rows
\* stored for that browser are the same after the iteration as before.
C23_FailedScanKeepsCache ==
    (run.pc = "loop" /\ run.i <= Len(run.browserList)) =>
        \A readFault \in ReadFaults, writeFault \in WriteFaults :
            LET b == run.browserList[run.i]
                next == LoopBody(run, tables, clock, readFault, writeFault)
            IN  (/\ next.run.scans # run.scans
                 /\ RecoverableFailure(b, run.env)
                 /\ TableName(b) \in DOMAIN tables)
                    => next.tables[TableName(b)] = tables[TableName(b)]

(***************************************************************************)
(* Claims about the cache, continued (SpecCache)                           *)
(***************************************************************************)
\* A read of the browser the last write was for, begun after that write
\* committed and within the freshness window, with no write since and no
\* storage fault.
ReadAfterWrite ==
    /\ rd.pc = "done" /\ ~rd.faulted
    /\ lastCall.n > 0 /\ ~lastCall.err
    /\ rd.seq = lastCall.n
    /\ TableName(rd.browser) = lastCall.table
    /\ rd.at - lastCall.at <= FreshnessWindow

\* C24 as stated: such a read returns a snapshot, whatever list was written.
C24_AnyWrittenListServed == ReadAfterWrite => (~rd.err /\ ~rd.result.nil)

\* C24: after a committed write of a list that is not empty, a read within
\* the freshness window returns the written records; after a committed write
\* of the empty list it returns nil without an error, the signal to rescan.
C24_WrittenListServed ==
    ReadAfterWrite =>
        /\ ~rd.err
        /\ IF lastCall.E # <<>>
           THEN ~rd.result.nil /\ rd.result.items = lastCall.E
           ELSE rd.result.nil

\* A read thirty minutes to the second after the write.
C24_Witness ==
    /\ ReadAfterWrite
    /\ Len(lastCall.E) = 2
    /\ rd.at - lastCall.at = FreshnessWindow
    /\ rd.result.items = lastCall.E

(***************************************************************************)
(* Claims about the Chromium scanner, continued (SpecChromium)             *)
(***************************************************************************)
\* C25: the list a scan returns holds no two records with the same
\* (ID, Profile, Version) triple, and writing it to a new cache succeeds.
C25_TriplesUnique ==
    (scanOut.done /\ scanIn.kind = "chromium") =>
        LET E == scanOut.exts.items
        IN  /\ \A i \in DOMAIN E, j \in DOMAIN E : Triple(E[i]) = Triple(E[j]) => i = j
            /\ ~UpdateExtensions(NewDB, scanIn.config.Name, E, 0, 1, NoFault).err

(***************************************************************************)
(* Claims about the cache, continued (SpecCache)                           *)
(***************************************************************************)
\* C26: whatever calls of UpdateExtensions came before, the rows stored for
\* a browser all carry one timestamp, that of the last committed write of
\* the browser, so the rows at the latest timestamp are all the rows stored.
C26_OneTimestamp ==
    \A t \in DOMAIN tables :
        LET rows == tables[t]
        IN  /\ \A i \in DOMAIN rows, j \in DOMAIN rows : rows[i].timestamp = rows[j].timestamp
            /\ rows # <<>> => RowsAt(rows, LatestTimestamp(rows)) = rows
            /\ (lastCall.n > 0 /\ ~lastCall.err /\ lastCall.table = t) =>
                   \A i \in DOMAIN rows : rows[i].timestamp = lastCall.at

\* Two rows of a second committed write over an older snapshot.
C26_Witness ==
    /\ lastCall.n = 2 /\ ~lastCall.err
    /\ lastCall.before # <<>>
    /\ lastCall.at > lastCall.before[1].timestamp
    /\ Len(tables[lastCall.table]) = 2
    /\ \A i \in 1..2 : tables[lastCall.table][i].timestamp = lastCall.at

(***************************************************************************)
(* Claims about one run: cache errors (SpecRun)                            *)
(***************************************************************************)
\* C27: a cache read that returns an error is followed by the live scan of
\* that browser, a cache write that fails leaves the scanned records in the
\* list to print, no iteration ends the run, and at the end the records of
\* every browser whose cache write failed are in the output.
C27_CacheErrorsKeepResults ==
    /\ (run.pc = "loop" /\ run.i <= Len(run.browserList)) =>
          \A readFault \in ReadFaults, writeFault \in WriteFaults :
              LET b == run.browserList[run.i]
                  cached == DB_GetExtensions(tables, b, clock, readFault)
                  fetched == BrowserInventory_GetExtensions(b, run.env)
                  next == LoopBody(run, tables, clock, readFault, writeFault)
                  nw == Len(next.run.cacheWrites)
              IN  /\ (~run.updateCache /\ cached.err) =>
                        /\ Len(next.run.scans) = Len(run.scans) + 1
                        /\ next.run.scans[Len(next.run.scans)].browser = b
                        /\ ~fetched.err =>
                              next.run.allExtensions = AppendAll(run.allExtensions, fetched.exts)
                  /\ (nw > Len(run.cacheWrites) /\ next.run.cacheWrites[nw].err) =>
                        /\ next.run.allExtensions = AppendAll(run.allExtensions, fetched.exts)
                        /\ next.tables = tables
                  /\ next.run.pc = "loop" /\ next.run.i = run.i + 1 /\ next.run.exit = -1
    /\ (run.pc = "done" /\ run.browserList # <<>>) =>
          /\ run.exit = 0
          /\ \A k \in DOMAIN run.cacheWrites :
                run.cacheWrites[k].err =>
                    Range(BrowserInventory_GetExtensions(run.cacheWrites[k].browser, run.env).exts.items)
                        \subseteq Range(run.stdout.Extensions.items)

\* A run in which the cache read for Chrome fails and so does the write
\* after the scan, and Chrome's two scanned records are printed.
C27_Witness ==
    /\ run.pc = "done" /\ run.exit = 0 /\ run.debug
    /\ <<"read", Chrome>> \in Range(run.diagnostics)
    /\ <<"write", Chrome>> \in Range(run.diagnostics)
    /\ Len(Printed(Chrome)) = 2
    /\ Printed(Chrome) = ScanResult(Chrome).exts.items

\* C28: with -json, a run in which a live fetch returned an error prints
\* exactly the empty result, whatever was collected; any other run prints
\* the collected records and their number as the total.
C28_JsonAllOrNothing ==
    (run.pc = "done" /\ run.exit = 0 /\ run.jsonOutput) =>
        /\ run.stdout.kind = "json"
        /\ IF run.fetchError
           THEN run.stdout.Extensions = Slice(<<>>) /\ run.stdout.Total = 0
           ELSE /\ run.stdout.Extensions = run.allExtensions
                /\ run.stdout.Total = Len(run.stdout.Extensions.items)
        /\ run.fetchError <=> (run.scans # <<>> /\ ~run.env.homeOK)

\* Chrome's record came from the cache, the fetch for a later browser
\* failed, and the output is empty.
C28_Witness ==
    /\ run.pc = "done" /\ run.exit = 0 /\ run.jsonOutput
    /\ run.fetchError
    /\ run.allExtensions.items = Stored(Chrome)
    /\ run.stdout.Total = 0
    /\ run.stdout.Extensions.items = <<>>

(***************************************************************************)
(* Claims about the Firefox scanner, continued (SpecFirefox)               *)
(***************************************************************************)
\* C29: when the extensions.json of a profile registered in profiles.ini
\* exists and cannot be read or parsed, the scan fails and returns no
\* record, whatever the profiles before it held.
C29_BadRegistryFailsScan ==
    (/\ scanOut.done /\ scanIn.kind = "firefox" /\ scanIn.top = "ok"
     /\ \E k \in DOMAIN scanIn.blocks : UnderSection(scanIn, k) /\ BadJson(scanIn, k)) =>
        /\ scanOut.err
        /\ scanOut.exts = NilExts

\* The first profile holds two addons, the extensions.json of the second
\* one cannot be parsed, and nothing is returned.
C29_Witness ==
    /\ scanOut.done /\ scanIn.kind = "firefox" /\ scanIn.top = "ok"
    /\ Len(scanIn.blocks) = 2
    /\ UnderSection(scanIn, 1)
    /\ Len(BlockRecords(scanIn, 1)) = 2
    /\ scanIn.blocks[2].json = "malformed"
    /\ scanOut.err
    /\ scanOut.exts.items = <<>>

(***************************************************************************)
(* Claims about the resolver, continued (SpecLocale)                       *)
(***************************************************************************)
\* The listings of the same directory in every order os.ReadDir could
\* have returned them.
Reorderings(entries) ==
    { [k \in DOMAIN entries |-> entries[p[k]]] :
        p \in { q \in [DOMAIN entries -> DOMAIN entries] :
                   \A i \in DOMAIN entries, j \in DOMAIN entries : q[i] = q[j] => i = j } }

\* The key, in original or lower case, is in a readable message file of the
\* default locale, of en or of en_US.
KeyInFixedTier(msg, loc, defaultLocale) ==
    LET msgKey == TrimSuffix(TrimPrefix(msg, MsgPrefix), MsgSuffix)
    IN  \E l \in ({defaultLocale} \ {""}) \cup {"en", "en_US"} :
            /\ ReadMessages(loc, l).state = "ok"
            /\ LookupMessage(ReadMessages(loc, l).table, msgKey, ToLower(msgKey)).hit

\* C30: a second run on the same files with the locale directories listed
\* in another order returns the same name whenever the key is in a readable
\* default, en or en_US file; when the two names differ, the first run's
\* name came from a locale of the last tier.
C30_OrderIndependent ==
    locOut.done =>
        \A entries \in Reorderings(locIn.loc.entries) :
            LET again == ResolvedName(locIn.msg, [locIn.loc EXCEPT !.entries = entries],
                                      locIn.defaultLocale)
            IN  /\ KeyInFixedTier(locIn.msg, locIn.loc, locIn.defaultLocale)
                      => again.name = locOut.name
                /\ again.name # locOut.name =>
                      /\ locIn.loc.dir = "ok"
                      /\ locOut.opened # <<>>
                      /\ locOut.opened[Len(locOut.opened)]
                            \notin {locIn.defaultLocale, "en", "en_US"}
                      /\ again.opened[Len(again.opened)]
                            \notin {locIn.defaultLocale, "en", "en_US"}

\* de is listed before en and both hold the key: the name is en's.
C30_Witness ==
    /\ locOut.done
    /\ locIn.msg = MsgPrefix \o Key \o MsgSuffix
    /\ locIn.loc.dir = "ok"
    /\ locIn.defaultLocale = "fr"
    /\ DOMAIN locIn.loc.files = {"de", "en"}
    /\ locIn.loc.files["de"] = MessagesFile("de", "orig")
    /\ locIn.loc.files["en"] = MessagesFile("en", "lower")
    /\ locIn.loc.entries[2].name = "de"
    /\ locOut.name = Message("en", "l")

\* The order decides when only locales of the last tier hold the key: de
\* is listed before fr and the name is de's.
C30_OrderDecidesLastTier ==
    /\ locOut.done
    /\ locIn.loc.dir = "ok"
    /\ ~KeyInFixedTier(locIn.msg, locIn.loc, locIn.defaultLocale)
    /\ locOut.name = Message("de", "o")
    /\ \E entries \in Reorderings(locIn.loc.entries) :
          ResolvedName(locIn.msg, [locIn.loc EXCEPT !.entries = entries],
                       locIn.defaultLocale).name = Message("fr", "o")

====
